---- MODULE Spec2Model ----
(***************************************************************************)
(* crew_os: the kernel (load_crew, tick), the sequential scheduler, the    *)
(* task manager, the tool dispatcher and the resource monitor.             *)
(***************************************************************************)
EXTENDS Integers, Sequences, FiniteSets, TLC

\* ------------------------------------------------------------------ bounds
NumTasks == 3
NumAgents == 2
MaxTicks == 4
MaxToolUse == 1
MaxRecords == 3

\* --------------------------------------------------------------- constants
\* Kernel._call_ollama: call_cost
call_cost == 100
\* WebSearchTool.__init__: cost
web_search_cost == 5
\* CalculatorTool.__init__: cost
calculator_cost == 1
\* Tool.__init__: default cost of a user-registered tool
default_cost == 1

\* ------------------------------------------------------------------ values
Tids == 0 .. (NumTasks - 1)
Aids == 0 .. (NumAgents - 1)
\* Python's None and a present optional value
None == << >>
Some(x) == << x >>
\* an id that no task of the crew has (Task ids are allocated from 0)
UnknownTid == NumTasks
\* an id that no agent of the crew has (Agent ids are allocated from 0)
UnknownAid == NumAgents

TaskStates == {"PENDING", "READY", "ASSIGNED", "RUNNING", "WAITING_CONTEXT",
               "COMPLETED", "FAILED"}
AgentStates == {"IDLE", "ASSIGNED", "RUNNING_TASK", "USING_TOOL",
                "WAITING_DELEGATION", "TERMINATED"}
CrewProcess == {"SEQUENTIAL", "HIERARCHICAL"}

\* str(final_content) of a final answer
Contents == {"x", "y"}

\* the registry: the two default tools and one user-registered tool
RegisteredTools == {"web_search", "calculator", "custom"}
\* names a decision may carry: registered ones, one that only an agent's
\* allow-list knows ("ghost") and one that nobody knows ("nope")
ToolNames == RegisteredTools \cup {"ghost", "nope"}

tool_cost(name) ==
    IF name = "web_search" THEN web_search_cost
    ELSE IF name = "calculator" THEN calculator_cost
    ELSE default_cost

\* Agent.tools of the agents of the crew
agent_tools(aid) ==
    IF aid = 0 THEN {"web_search", "ghost"}
    ELSE IF aid = 1 THEN {"calculator", "custom"}
    ELSE {}

\* ------------------------------------------------------------ declarations
\* Task.__init__
Task(agent_id, deps) ==
    [assigned_agent_id |-> agent_id, dependencies |-> deps,
     state |-> "PENDING", context |-> None, result |-> None]

\* Agent.__init__
Agent ==
    [state |-> "IDLE", current_task_id |-> None, tokens |-> 0, tool_calls |-> 0]

\* ResourceMonitor.__init__
ResourceMonitor ==
    [total_tokens_used |-> 0, total_tool_calls |-> 0, usage_log |-> << >>]

\* dependency lists of a declaration whose order respects the dependencies:
\* none, the previous task, the two previous tasks in either order
DepChoices(t) ==
    {<< >>}
    \cup (IF t >= 1 THEN {<<t - 1>>} ELSE {})
    \cup (IF t >= 2 THEN {<<t - 2, t - 1>>, <<t - 1, t - 2>>} ELSE {})

\* dependency lists nothing rejects: the task itself (a cycle), an id that
\* does not exist, the next task (the order violates the dependency; with
\* the next task depending on this one, a cycle of two)
BadDepChoices(t) ==
    {<<t>>, <<UnknownTid>>}
    \cup (IF t + 1 \in Tids THEN {<<t + 1>>} ELSE {})

\* the agent a declaration names for task t (overwritten at assignment)
DeclaredAgent(t) == IF t = 0 THEN Some(NumAgents - 1) ELSE None

\* the task tables of freshly constructed crews
FreshTasks(deps) == [t \in Tids |-> Task(DeclaredAgent(t), deps[t])]
FreshAgents == [a \in Aids |-> Agent]
Identity == [i \in 1 .. NumTasks |-> i - 1]

\* ------------------------------------------------------------- TaskManager
\* a task manager that creates the task it does not find
update_task_state_creates(ts, tid, new_state) ==
    [t \in DOMAIN ts \cup {tid} |->
        IF t \in DOMAIN ts
        THEN IF t = tid THEN [ts[t] EXCEPT !.state = new_state] ELSE ts[t]
        ELSE [Task(None, << >>) EXCEPT !.state = new_state]]

\* what update_task_state and add_result log: an error for an unknown id
task_report(ts, tid) == IF tid \in DOMAIN ts THEN "ok" ELSE "not_found"

\* TaskManager.update_task_state
update_task_state(ts, tid, new_state) ==
    IF tid \in DOMAIN ts
    THEN IF ts[tid].state # new_state
         THEN [ts EXCEPT ![tid].state = new_state]
         ELSE ts
    ELSE ts

\* a task manager that drops the result it is given
add_result_dropped(ts, tid, res) == ts

\* TaskManager.add_result
add_result(ts, tid, res) ==
    IF tid \in DOMAIN ts THEN [ts EXCEPT ![tid].result = Some(res)] ELSE ts

\* one dependency contributes to the context: it exists, is COMPLETED and
\* has a result
dep_usable(ts, dep_tid) ==
    /\ dep_tid \in DOMAIN ts
    /\ ts[dep_tid].state = "COMPLETED"
    /\ ts[dep_tid].result # None

\* build_context that leaves an unusable dependency out and goes on
RECURSIVE context_parts_partial(_, _, _, _)
context_parts_partial(ts, deps, i, parts) ==
    IF i > Len(deps) THEN Some(parts)
    ELSE IF dep_usable(ts, deps[i])
         THEN context_parts_partial(ts, deps, i + 1,
                  Append(parts, <<deps[i], ts[deps[i]].result[1]>>))
         ELSE context_parts_partial(ts, deps, i + 1, parts)

\* the loop of build_context: the parts in the order of the dependency
\* list, None as soon as one dependency is unusable
RECURSIVE context_parts(_, _, _, _)
context_parts(ts, deps, i, parts) ==
    IF i > Len(deps) THEN Some(parts)
    ELSE IF dep_usable(ts, deps[i])
         THEN context_parts(ts, deps, i + 1,
                            Append(parts, <<deps[i], ts[deps[i]].result[1]>>))
         ELSE None

\* TaskManager.build_context: the task table with the task's context set
build_context(ts, tid) ==
    IF ts[tid].dependencies = << >>
    THEN [ts EXCEPT ![tid].context = Some(<< >>)]
    ELSE [ts EXCEPT ![tid].context =
              context_parts(ts, ts[tid].dependencies, 1, << >>)]

\* a readiness check that takes a dependency it cannot find as met
deps_met_unknown_ignored(ts, deps) ==
    \A i \in 1 .. Len(deps) :
        deps[i] \in DOMAIN ts => ts[deps[i]].state = "COMPLETED"

\* a readiness check that never finds a dependency completed
deps_met_never(ts, deps) == deps = << >>

\* the inner loop of check_and_update_task_readiness
deps_met(ts, deps) ==
    \A i \in 1 .. Len(deps) :
        deps[i] \in DOMAIN ts /\ ts[deps[i]].state = "COMPLETED"

\* a readiness check that looks at every task, whatever its state
RECURSIVE readiness_loop_any_state(_, _, _)
readiness_loop_any_state(ts, order, i) ==
    IF i > Len(order) THEN ts
    ELSE LET t == order[i] IN
         readiness_loop_any_state(
             IF deps_met(ts, ts[t].dependencies)
             THEN update_task_state(ts, t, "READY")
             ELSE ts,
             order, i + 1)

\* TaskManager.check_and_update_task_readiness, over the dict order
RECURSIVE readiness_loop(_, _, _)
readiness_loop(ts, order, i) ==
    IF i > Len(order) THEN ts
    ELSE LET t == order[i] IN
         readiness_loop(
             IF ts[t].state = "PENDING" /\ deps_met(ts, ts[t].dependencies)
             THEN update_task_state(ts, t, "READY")
             ELSE ts,
             order, i + 1)

check_and_update_task_readiness(ts, order) == readiness_loop(ts, order, 1)

\* --------------------------------------------------------------- Scheduler
\* the agent pool in dict order (Crew.__init__ keeps the list order)
AgentOrder == [i \in 1 .. NumAgents |-> i - 1]

\* an agent pool listed last agent first
get_available_agents_last_first(ags) ==
    LET s == SelectSeq(AgentOrder, LAMBDA a : ags[a].state = "IDLE")
    IN  [i \in 1 .. Len(s) |-> s[Len(s) + 1 - i]]

\* an agent pool that forgets to look at the agents' state
get_available_agents_any_state(ags) == AgentOrder

\* AgentScheduler.get_available_agents
get_available_agents(ags) ==
    SelectSeq(AgentOrder, LAMBDA a : ags[a].state = "IDLE")

\* Agent.assign_task, by an agent that starts at once
assign_task_starts(ags, aid, tid) ==
    [ags EXCEPT ![aid].current_task_id = Some(tid),
                ![aid].state = "RUNNING_TASK"]

\* Agent.assign_task
assign_task(ags, aid, tid) ==
    [ags EXCEPT ![aid].current_task_id = Some(tid), ![aid].state = "ASSIGNED"]

\* an assignment that starts the task at once
assign_task_to_agent_running(w, tid, aid) ==
    [w EXCEPT
        !.tasks = update_task_state(
                      [w.tasks EXCEPT ![tid].assigned_agent_id = Some(aid)],
                      tid, "RUNNING"),
        !.agents = assign_task(w.agents, aid, tid)]

\* AgentScheduler.assign_task_to_agent, on [tasks, agents, task_queue]
assign_task_to_agent(w, tid, aid) ==
    [w EXCEPT
        !.tasks = update_task_state(
                      [w.tasks EXCEPT ![tid].assigned_agent_id = Some(aid)],
                      tid, "ASSIGNED"),
        !.agents = assign_task(w.agents, aid, tid)]

\* a release that frees every agent that is not IDLE
release_agent_all(ags, agent_id) ==
    IF agent_id \in DOMAIN ags
    THEN [a \in DOMAIN ags |->
             IF ags[a].state # "IDLE"
             THEN [ags[a] EXCEPT !.state = "IDLE", !.current_task_id = None]
             ELSE ags[a]]
    ELSE ags

\* a release that leaves the task reference in place
release_agent_keeps_task(ags, agent_id) ==
    IF agent_id \in DOMAIN ags
    THEN [ags EXCEPT ![agent_id].state = "IDLE"]
    ELSE ags

\* AgentScheduler.release_agent
release_agent(ags, agent_id) ==
    IF agent_id \in DOMAIN ags
    THEN IF ags[agent_id].state # "IDLE"
         THEN [ags EXCEPT ![agent_id].state = "IDLE",
                          ![agent_id].current_task_id = None]
         ELSE ags
    ELSE ags

\* a promotion condition that does not look at the agent's current task
agent_confirms_state_only(w, tid) ==
    LET ref == w.tasks[tid].assigned_agent_id IN
    /\ ref # None
    /\ ref[1] \in DOMAIN w.agents
    /\ w.agents[ref[1]].state = "ASSIGNED"

\* the condition of the promotion step: the task's agent exists, has the
\* task as current task and is ASSIGNED
agent_confirms(w, tid) ==
    LET ref == w.tasks[tid].assigned_agent_id IN
    /\ ref # None
    /\ ref[1] \in DOMAIN w.agents
    /\ w.agents[ref[1]].current_task_id = Some(tid)
    /\ w.agents[ref[1]].state = "ASSIGNED"

\* a promotion that builds no context
promote_without_context(w, tid) ==
    LET aid == w.tasks[tid].assigned_agent_id[1] IN
    [w EXCEPT
        !.agents = [w.agents EXCEPT ![aid].state = "RUNNING_TASK"],
        !.tasks = update_task_state(w.tasks, tid, "RUNNING")]

\* one iteration of the promotion loop
promote(w, tid) ==
    LET aid == w.tasks[tid].assigned_agent_id[1] IN
    [w EXCEPT
        !.agents = [w.agents EXCEPT ![aid].state = "RUNNING_TASK"],
        !.tasks = build_context(update_task_state(w.tasks, tid, "RUNNING"),
                                tid)]

\* schedule_next, step 1: over the tasks that were ASSIGNED at its start
RECURSIVE promotion_loop(_, _, _)
promotion_loop(w, assigned_tasks, i) ==
    IF i > Len(assigned_tasks) THEN w
    ELSE promotion_loop(
             IF agent_confirms(w, assigned_tasks[i])
             THEN promote(w, assigned_tasks[i])
             ELSE w,
             assigned_tasks, i + 1)

promotion(w, order) ==
    promotion_loop(w,
                   SelectSeq(order, LAMBDA t : w.tasks[t].state = "ASSIGNED"),
                   1)

\* an assignment step that drops every head it cannot assign before it
\* looks for a task to assign
RECURSIVE assignment_after_drops(_, _)
assignment_after_drops(w, order) ==
    IF w.task_queue = << >> THEN w
    ELSE LET h == Head(w.task_queue)
             ts == check_and_update_task_readiness(w.tasks, order)
             w1 == [w EXCEPT !.tasks = ts]
         IN  IF h \notin DOMAIN ts
                \/ ts[h].state \in {"ASSIGNED", "RUNNING", "COMPLETED", "FAILED"}
             THEN assignment_after_drops(
                      [w1 EXCEPT !.task_queue = Tail(w1.task_queue)], order)
             ELSE IF ts[h].state = "READY"
                     /\ get_available_agents(w1.agents) # << >>
             THEN assign_task_to_agent(
                      [w1 EXCEPT !.task_queue = Tail(w1.task_queue)],
                      h, get_available_agents(w1.agents)[1])
             ELSE w1

\* an assignment step that takes the READY head off the queue before it
\* looks for an agent
assignment_dequeues_first(w, order) ==
    IF w.task_queue = << >> THEN w
    ELSE LET h == Head(w.task_queue)
             ts == check_and_update_task_readiness(w.tasks, order)
             w1 == [w EXCEPT !.tasks = ts]
             w2 == [w1 EXCEPT !.task_queue = Tail(w1.task_queue)]
         IN  IF h \in DOMAIN ts /\ ts[h].state = "READY"
             THEN IF get_available_agents(w1.agents) # << >>
                  THEN assign_task_to_agent(
                           w2, h, get_available_agents(w1.agents)[1])
                  ELSE w2
             ELSE IF h \in DOMAIN ts /\ ts[h].state = "PENDING" THEN w1
             ELSE w2

\* an assignment step that goes on while the head is READY and an agent IDLE
RECURSIVE assignment_drain(_, _)
assignment_drain(w, order) ==
    IF w.task_queue = << >> THEN w
    ELSE LET h == Head(w.task_queue)
             w1 == [w EXCEPT
                       !.tasks = check_and_update_task_readiness(w.tasks, order)]
             idle == get_available_agents(w1.agents)
         IN  IF h \in DOMAIN w1.tasks /\ w1.tasks[h].state = "READY"
                /\ idle # << >>
             THEN assignment_drain(
                      assign_task_to_agent(
                          [w1 EXCEPT !.task_queue = Tail(w1.task_queue)],
                          h, idle[1]),
                      order)
             ELSE w1

\* an assignment step that takes the first READY task of the queue, not
\* only its head
assignment_skip_ahead(w, order) ==
    LET w1 == [w EXCEPT
                  !.tasks = check_and_update_task_readiness(w.tasks, order)]
        ready == SelectSeq(w1.task_queue,
                           LAMBDA t : t \in DOMAIN w1.tasks
                                      /\ w1.tasks[t].state = "READY")
        idle == get_available_agents(w1.agents)
    IN  IF ready # << >> /\ idle # << >>
        THEN assign_task_to_agent(
                 [w1 EXCEPT !.task_queue =
                      SelectSeq(w1.task_queue, LAMBDA t : t # ready[1])],
                 ready[1], idle[1])
        ELSE w1

\* a scheduler that drops a head that is not READY instead of waiting
assignment_drops_blocked(w, order) ==
    IF w.task_queue = << >> THEN w
    ELSE LET next_tid_in_queue == Head(w.task_queue)
             ts == check_and_update_task_readiness(w.tasks, order)
             w1 == [w EXCEPT !.tasks = ts]
             available_agents == get_available_agents(w1.agents)
         IN  IF next_tid_in_queue \in DOMAIN ts
                /\ ts[next_tid_in_queue].state = "READY"
             THEN IF available_agents # << >>
                  THEN assign_task_to_agent(
                           [w1 EXCEPT !.task_queue = Tail(w1.task_queue)],
                           next_tid_in_queue, available_agents[1])
                  ELSE w1
             ELSE [w1 EXCEPT !.task_queue = Tail(w1.task_queue)]

\* schedule_next, step 2: the head of the queue
assignment(w, order) ==
    IF w.task_queue = << >> THEN w
    ELSE LET next_tid_in_queue == Head(w.task_queue)
             ts == check_and_update_task_readiness(w.tasks, order)
             w1 == [w EXCEPT !.tasks = ts]
             known == next_tid_in_queue \in DOMAIN ts
         IN  IF known /\ ts[next_tid_in_queue].state = "READY"
             THEN LET available_agents == get_available_agents(w1.agents) IN
                  IF available_agents # << >>
                  THEN assign_task_to_agent(
                           [w1 EXCEPT !.task_queue = Tail(w1.task_queue)],
                           next_tid_in_queue, available_agents[1])
                  ELSE w1
             ELSE IF known /\ ts[next_tid_in_queue].state = "PENDING"
             THEN w1
             ELSE IF known /\ ts[next_tid_in_queue].state \in
                          {"ASSIGNED", "RUNNING", "COMPLETED", "FAILED"}
             THEN [w1 EXCEPT !.task_queue = Tail(w1.task_queue)]
             ELSE IF ~known
             THEN [w1 EXCEPT !.task_queue = Tail(w1.task_queue)]
             ELSE w1

\* a pass that assigns the head of the queue before it promotes
schedule_next_assigns_first(proc, w, order) ==
    IF proc = "SEQUENTIAL" THEN promotion(assignment(w, order), order)
    ELSE w

\* AgentScheduler.schedule_next
schedule_next(proc, w, order) ==
    IF proc = "SEQUENTIAL" THEN assignment(promotion(w, order), order)
    ELSE w

\* a scheduler that queues the tasks under every policy
initial_queue_any_policy(proc, order) == order

\* a scheduler that queues the tasks last to first
initial_queue_reversed(proc, order) ==
    IF proc = "SEQUENTIAL"
    THEN [i \in 1 .. Len(order) |-> order[Len(order) + 1 - i]]
    ELSE << >>

\* AgentScheduler.__init__: the queue
initial_queue(proc, order) == IF proc = "SEQUENTIAL" THEN order ELSE << >>

\* --------------------------------------------------------- ResourceMonitor
\* a monitor that records whatever amount it is given
record_usage_unchecked(rm, usage_type, agent_id, task_id, amount) ==
    [total_tokens_used |->
         IF usage_type = "tokens" THEN rm.total_tokens_used + amount
         ELSE rm.total_tokens_used,
     total_tool_calls |->
         IF usage_type = "tool_calls" THEN rm.total_tool_calls + amount
         ELSE rm.total_tool_calls,
     usage_log |->
         Append(rm.usage_log, <<usage_type, agent_id, task_id, amount>>)]

\* ResourceMonitor.record_usage
record_usage(rm, usage_type, agent_id, task_id, amount) ==
    IF amount <= 0 THEN rm
    ELSE [total_tokens_used |->
              IF usage_type = "tokens" THEN rm.total_tokens_used + amount
              ELSE rm.total_tokens_used,
          total_tool_calls |->
              IF usage_type = "tokens" THEN rm.total_tool_calls
              ELSE IF usage_type = "tool_calls"
                   THEN rm.total_tool_calls + amount
                   ELSE rm.total_tool_calls,
          usage_log |->
              Append(rm.usage_log, <<usage_type, agent_id, task_id, amount>>)]

\* ResourceMonitor.get_report
get_report(rm) ==
    [total_tokens |-> rm.total_tokens_used,
     total_tool_calls |-> rm.total_tool_calls]

\* Agent.record_usage
agent_record_usage(ags, aid, usage_type, amount) ==
    IF amount <= 0 THEN ags
    ELSE IF usage_type = "tokens"
         THEN [ags EXCEPT ![aid].tokens = @ + amount]
    ELSE IF usage_type = "tool_calls"
         THEN [ags EXCEPT ![aid].tool_calls = @ + amount]
    ELSE ags

\* ---------------------------------------------------------- ToolDispatcher
\* the authorization check of execute_tool
authorized(aid, tool_name) == tool_name \in agent_tools(aid)

\* a charge whose token cost reaches the ledger only
charge_ledger_only(s, aid, task_id, tool_name) ==
    LET rm1 == record_usage(s.rm, "tool_calls", aid, task_id, 1)
        rm2 == record_usage(rm1, "tokens", aid, task_id, tool_cost(tool_name))
        ag1 == agent_record_usage(s.agents, aid, "tool_calls", 1)
    IN  [rm |-> rm2, agents |-> ag1]

\* ToolRegistry.get_tool finds the tool
registered(tool_name) == tool_name \in RegisteredTools

\* the resource recording of execute_tool, on [rm, agents]
charge(s, aid, task_id, tool_name) ==
    LET rm1 == record_usage(s.rm, "tool_calls", aid, task_id, 1)
        rm2 == record_usage(rm1, "tokens", aid, task_id, tool_cost(tool_name))
        ag1 == agent_record_usage(s.agents, aid, "tool_calls", 1)
        ag2 == agent_record_usage(ag1, aid, "tokens", tool_cost(tool_name))
    IN  [rm |-> rm2, agents |-> ag2]

\* a dispatcher that records the usage only when the tool returned
execute_tool_charge_on_success(s, aid, task_id, tool_name, raises) ==
    IF ~authorized(aid, tool_name)
    THEN [rm |-> s.rm, agents |-> s.agents,
          result |-> "Unauthorized", invoked |-> FALSE]
    ELSE IF ~registered(tool_name)
    THEN [rm |-> s.rm, agents |-> s.agents,
          result |-> "NotFound", invoked |-> FALSE]
    ELSE IF raises = "ok"
    THEN LET c == charge(s, aid, task_id, tool_name) IN
         [rm |-> c.rm, agents |-> c.agents, result |-> "Result",
          invoked |-> TRUE]
    ELSE [rm |-> s.rm, agents |-> s.agents,
          result |-> IF raises = "type_error" THEN "IncorrectArguments"
                     ELSE "ToolError",
          invoked |-> TRUE]

\* a dispatcher that resolves the tool before it checks the allow-list
execute_tool_lookup_first(s, aid, task_id, tool_name, raises) ==
    IF ~registered(tool_name)
    THEN [rm |-> s.rm, agents |-> s.agents,
          result |-> "NotFound", invoked |-> FALSE]
    ELSE IF ~authorized(aid, tool_name)
    THEN [rm |-> s.rm, agents |-> s.agents,
          result |-> "Unauthorized", invoked |-> FALSE]
    ELSE LET c == charge(s, aid, task_id, tool_name) IN
         [rm |-> c.rm, agents |-> c.agents,
          result |-> IF raises = "ok" THEN "Result"
                     ELSE IF raises = "type_error" THEN "IncorrectArguments"
                     ELSE "ToolError",
          invoked |-> TRUE]

\* ToolDispatcher.execute_tool on [rm, agents]; raises is what tool.execute
\* does with the arguments ("ok": returns, "type_error": rejects the
\* arguments, "error": raises another exception).  The result is the kind
\* of string returned and whether the tool was invoked.
execute_tool(s, aid, task_id, tool_name, raises) ==
    IF aid \notin DOMAIN s.agents
    THEN [rm |-> s.rm, agents |-> s.agents,
          result |-> "AgentNotFound", invoked |-> FALSE]
    ELSE IF ~authorized(aid, tool_name)
    THEN [rm |-> s.rm, agents |-> s.agents,
          result |-> "Unauthorized", invoked |-> FALSE]
    ELSE IF ~registered(tool_name)
    THEN [rm |-> s.rm, agents |-> s.agents,
          result |-> "NotFound", invoked |-> FALSE]
    ELSE LET c == charge(s, aid, task_id, tool_name) IN
         [rm |-> c.rm, agents |-> c.agents,
          result |-> IF raises = "ok" THEN "Result"
                     ELSE IF raises = "type_error" THEN "IncorrectArguments"
                     ELSE "ToolError",
          invoked |-> TRUE]

\* ------------------------------------------------------------------ Kernel
\* what the decision oracle may hand back to _simulate_agent_work, after
\* _call_ollama parsed it: "invalid" is None, a non-dict or a dict without
\* "action"; "unknown" is any other action
NonToolDecisions ==
    {[kind |-> "invalid"], [kind |-> "unknown"], [kind |-> "final", content |-> None]}
    \cup {[kind |-> "final", content |-> Some(c)] : c \in Contents}

\* a tool_name that is a JSON list: it equals no name and cannot key a dict
Unhashable == "[]"

\* "arguments": a dict, something else, or a dict with a key that is also a
\* parameter of execute_tool (agent, task_id, tool_name, self)
ToolDecisions ==
    [kind : {"use_tool"}, tool_name : {Some(n) : n \in ToolNames},
     arguments : {"dict"}]
    \cup {[kind |-> "use_tool", tool_name |-> None, arguments |-> "dict"],
          [kind |-> "use_tool", tool_name |-> Some("web_search"),
           arguments |-> "not_dict"],
          [kind |-> "use_tool", tool_name |-> Some("web_search"),
           arguments |-> "collide"],
          [kind |-> "use_tool", tool_name |-> Some(Unhashable),
           arguments |-> "dict"]}

\* the second consultation: a repeated use_tool is never executed
SecondDecisions ==
    NonToolDecisions
    \cup {[kind |-> "use_tool", tool_name |-> Some("web_search"),
           arguments |-> "dict"]}

\* what tool.execute(**kwargs) can do: the default tools take any keywords
\* and catch their own errors; a user tool may reject them or raise
ToolBehaviours(name) ==
    IF name = "custom" THEN {"ok", "type_error", "error"} ELSE {"ok"}

\* the decision reaches the dispatch at kernel.py:224
dispatches(d) ==
    d.kind = "use_tool" /\ d.arguments # "not_dict" /\ d.tool_name # None

\* a consultation that is charged, fails and is made again
call_ollama_retried(k, aid, tid) ==
    [k EXCEPT
        !.rm = record_usage(
                   record_usage(k.rm, "tokens", aid, tid, call_cost),
                   "tokens", aid, tid, call_cost),
        !.agents = agent_record_usage(
                       agent_record_usage(k.agents, aid, "tokens", call_cost),
                       aid, "tokens", call_cost)]

\* a consultation that is charged to the ledger only
call_ollama_ledger_only(k, aid, tid) ==
    [k EXCEPT !.rm = record_usage(k.rm, "tokens", aid, tid, call_cost)]

\* Kernel._call_ollama: the charge, on [tasks, agents, rm]
call_ollama(k, aid, tid) ==
    [k EXCEPT
        !.rm = record_usage(k.rm, "tokens", aid, tid, call_cost),
        !.agents = agent_record_usage(k.agents, aid, "tokens", call_cost)]

\* the result of a work step: the state it leaves, how it ended, the
\* dispatch it made (None, or what execute_tool did) and the number of
\* consultations
Outcome(k, what, res, calls) ==
    [k |-> k, outcome |-> what, dispatch |-> res, calls |-> calls]

\* what one call of execute_tool did: r is its result, s the state before
Dispatch(s, name, raises, r) ==
    Some([tool_name |-> name, raises |-> raises, result |-> r.result,
          invoked |-> r.invoked, before |-> s,
          after |-> [rm |-> r.rm, agents |-> r.agents]])

\* a final answer that completes the task without a readiness check
final_answer_no_readiness(k, aid, tid, d, order, res, calls) ==
    IF d.kind = "final" /\ d.content # None
    THEN Outcome(
             [k EXCEPT
                 !.tasks = update_task_state(
                               add_result(k.tasks, tid, d.content[1]),
                               tid, "COMPLETED"),
                 !.agents = release_agent(k.agents, aid)],
             "completed", res, calls)
    ELSE Outcome([k EXCEPT !.agents[aid].state = "RUNNING_TASK"],
                 "running", res, calls)

\* a kernel that fails the task and frees its agent when the decision is
\* not a final answer with content
final_answer_fails_task(k, aid, tid, d, order, res, calls) ==
    IF d.kind = "final" /\ d.content # None
    THEN Outcome(
             [k EXCEPT
                 !.tasks = check_and_update_task_readiness(
                               update_task_state(
                                   add_result(k.tasks, tid, d.content[1]),
                                   tid, "COMPLETED"),
                               order),
                 !.agents = release_agent(k.agents, aid)],
             "completed", res, calls)
    ELSE Outcome([k EXCEPT
                     !.tasks = update_task_state(k.tasks, tid, "FAILED"),
                     !.agents = release_agent(k.agents, aid)],
                 "running", res, calls)

\* a kernel that gives the agent up when the decision is not a final answer
\* with content
final_answer_gives_up(k, aid, tid, d, order, res, calls) ==
    IF d.kind = "final" /\ d.content # None
    THEN Outcome(
             [k EXCEPT
                 !.tasks = check_and_update_task_readiness(
                               update_task_state(
                                   add_result(k.tasks, tid, d.content[1]),
                                   tid, "COMPLETED"),
                               order),
                 !.agents = release_agent(k.agents, aid)],
             "completed", res, calls)
    ELSE Outcome([k EXCEPT !.agents = release_agent(k.agents, aid)],
                 "running", res, calls)

\* _simulate_agent_work from "Handle Final Answer Action" on
final_answer(k, aid, tid, d, order, res, calls) ==
    IF d.kind = "final"
    THEN IF d.content = None
         THEN Outcome([k EXCEPT !.agents[aid].state = "RUNNING_TASK"],
                      "running", res, calls)
         ELSE Outcome(
                  [k EXCEPT
                      !.tasks = check_and_update_task_readiness(
                                    update_task_state(
                                        add_result(k.tasks, tid, d.content[1]),
                                        tid, "COMPLETED"),
                                    order),
                      !.agents = release_agent(k.agents, aid)],
                  "completed", res, calls)
    ELSE Outcome([k EXCEPT !.agents[aid].state = "RUNNING_TASK"],
                 "running", res, calls)

\* the call at kernel.py:224 binds the keywords of the decision to the
\* parameters of execute_tool: a keyword named like a parameter is a
\* TypeError raised in the kernel, outside the dispatcher's try
binds(d) == d.arguments # "collide"

\* Kernel._simulate_agent_work
simulate_agent_work(k, aid, tid, d1, raises, d2, order) ==
    LET k1 == call_ollama(k, aid, tid) IN
    IF d1.kind = "invalid" THEN Outcome(k1, "running", None, 1)
    ELSE IF d1.kind = "use_tool"
    THEN IF d1.arguments = "not_dict" THEN Outcome(k1, "running", None, 1)
         ELSE IF d1.tool_name = None THEN Outcome(k1, "running", None, 1)
         ELSE LET k2 == [k1 EXCEPT !.agents[aid].state = "USING_TOOL"] IN
              IF ~binds(d1) THEN Outcome(k2, "raised", None, 1)
              ELSE LET s == [rm |-> k2.rm, agents |-> k2.agents]
                       r == execute_tool(s, aid, tid, d1.tool_name[1], raises)
                       k3 == [k2 EXCEPT !.rm = r.rm, !.agents = r.agents]
                       res == Dispatch(s, d1.tool_name[1], raises, r)
                   IN  IF d1.tool_name[1] = Unhashable
                       THEN Outcome(k3, "raised", res, 1)
                       ELSE LET k4 == call_ollama(k3, aid, tid) IN
                            IF d2.kind = "invalid"
                            THEN Outcome(
                                     [k4 EXCEPT
                                         !.agents[aid].state = "RUNNING_TASK"],
                                     "running", res, 2)
                            ELSE final_answer(k4, aid, tid, d2, order, res, 2)
    ELSE final_answer(k1, aid, tid, d1, order, None, 1)

\* the states the agent of a work step is put in, one after the other: the
\* one it starts in, USING_TOOL when the first decision gets as far as the
\* dispatch (kernel.py:221), and the one the step leaves it in
agent_path(ags, aid, d1, o) ==
    << ags[aid].state >>
    \o (IF dispatches(d1) THEN << "USING_TOOL" >> ELSE << >>)
    \o << o.k.agents[aid].state >>

\* a termination check that is satisfied by one terminal task
all_tasks_done_any(ts) ==
    \E t \in DOMAIN ts : ts[t].state \in {"COMPLETED", "FAILED"}

\* a crew that is never done
all_tasks_done_never(ts) == FALSE

\* Crew.all_tasks_done
all_tasks_done(ts) ==
    \A t \in DOMAIN ts : ts[t].state \in {"COMPLETED", "FAILED"}

\* a snapshot that stops at the first task in the state
get_tasks_by_state_first(ts, order, st) ==
    LET s == SelectSeq(order, LAMBDA t : ts[t].state = st)
    IN  IF s = << >> THEN << >> ELSE << Head(s) >>

\* Crew.get_tasks_by_state, in dict order
get_tasks_by_state(ts, order, st) ==
    SelectSeq(order, LAMBDA t : ts[t].state = st)

\* a reset that leaves the agents' usage counters as they are
reset_agents_keeps_usage(ags) ==
    [a \in DOMAIN ags |->
        [ags[a] EXCEPT !.state = "IDLE", !.current_task_id = None]]

\* Crew.reset_states
reset_agents(ags) ==
    [a \in DOMAIN ags |->
        [ags[a] EXCEPT !.state = "IDLE", !.current_task_id = None,
                       !.tokens = 0, !.tool_calls = 0]]

reset_tasks(ts) ==
    [t \in DOMAIN ts |->
        [ts[t] EXCEPT !.state = "PENDING", !.context = None, !.result = None]]

\* ------------------------------------------------------------------- state
VARIABLES
    declaration,       \* the crew the driver builds: dependencies and process
    loaded,            \* Kernel.crew is not None
    process,           \* Crew.process
    task_order,        \* Crew.task_order
    tasks,             \* Crew.tasks
    agents,            \* Crew.agents
    task_queue,        \* AgentScheduler.task_queue
    resource_monitor,  \* Kernel.resource_monitor
    tick_count,        \* Kernel.tick_count
    running,           \* Kernel.running
    pc,                \* where tick() is: "idle" between ticks, "work" in its loop
    running_tasks,     \* tick(): what is left of the snapshot of RUNNING tasks
    tick_ret,          \* what the last tick() returned: "none" while it runs
    step,              \* the last work step of the running tick
    tool_uses,         \* decisions so far that reached the dispatch
    assigned_at,       \* the tick in which each task was assigned, 0 if never
    history            \* since the load: was there a reset, did every work
                       \* step end with a final answer; and, while a tick
                       \* runs, the tasks that were RUNNING when it was called

vars == <<declaration, loaded, process, task_order, tasks, agents, task_queue,
          resource_monitor, tick_count, running, pc, running_tasks, tick_ret,
          step, tool_uses, assigned_at, history>>

crew_vars == <<declaration, loaded, process, task_order, tasks, agents>>
core_vars == <<task_queue, resource_monitor, tick_count, running>>

NoStep == [tid |-> None, outcome |-> "none"]
FreshHistory == [reset |-> FALSE, all_final |-> TRUE, running_at_start |-> {}]

\* the declarations a crew may be built from: the well-formed ones, and
\* those with one malformed task m in a chain (no dependencies before m,
\* each task after m depending on its predecessor)
WellFormed == {deps \in [Tids -> UNION {DepChoices(t) : t \in Tids}] :
                  \A t \in Tids : deps[t] \in DepChoices(t)}

\* a task that depends on the task declared right after it, every other
\* task without dependencies: the order is wrong, and there is no cycle
OrderViolated ==
    {[t \in Tids |-> IF t = m THEN <<m + 1>> ELSE << >>] :
        m \in {t \in Tids : t + 1 \in Tids}}

Malformed ==
    OrderViolated
    \cup UNION {{[t \in Tids |-> IF t < m THEN << >>
                                 ELSE IF t = m THEN bad ELSE <<t - 1>>] :
                    bad \in BadDepChoices(m)} : m \in Tids}

Declarations == WellFormed \cup Malformed

\* Kernel.__init__, and the crew definition the driver holds
Init ==
    /\ declaration \in [deps : Declarations, process : CrewProcess]
    /\ loaded = FALSE
    /\ process = "NONE"
    /\ task_order = << >>
    /\ tasks = << >>
    /\ agents = << >>
    /\ task_queue = << >>
    /\ resource_monitor = ResourceMonitor
    /\ tick_count = 0
    /\ running = FALSE
    /\ pc = "idle"
    /\ running_tasks = << >>
    /\ tick_ret = "none"
    /\ step = NoStep
    /\ tool_uses = 0
    /\ assigned_at = << >>
    /\ history = FreshHistory

\* Kernel.load_crew with a newly built crew (Shell._create_sample_crew)
LoadCrew ==
    /\ pc = "idle"
    /\ loaded' = TRUE
    /\ process' = declaration.process
    /\ task_order' = Identity
    /\ tasks' = FreshTasks(declaration.deps)
    /\ agents' = FreshAgents
    /\ task_queue' = initial_queue(declaration.process, Identity)
    /\ resource_monitor' = ResourceMonitor
    /\ tick_count' = 0
    /\ running' = FALSE
    /\ tick_ret' = "none"
    /\ step' = [tid |-> None, outcome |-> "load", prior_ticks |-> tick_count]
    /\ tool_uses' = 0
    /\ assigned_at' = [t \in Tids |-> 0]
    /\ history' = FreshHistory
    /\ UNCHANGED <<declaration, pc, running_tasks>>

\* Crew.reset_states, between two ticks
Reset ==
    /\ pc = "idle"
    /\ loaded
    /\ agents' = reset_agents(agents)
    /\ tasks' = reset_tasks(tasks)
    /\ history' = [history EXCEPT !.reset = TRUE]
    /\ tick_ret' = "none"
    /\ step' = [tid |-> None, outcome |-> "reset"]
    /\ UNCHANGED <<declaration, loaded, process, task_order, core_vars, pc,
                   running_tasks, tool_uses, assigned_at>>

\* Kernel.tick without a crew: reported, nothing changes
TickNoCrew ==
    /\ pc = "idle"
    /\ ~loaded
    /\ tick_ret' = "false"
    /\ UNCHANGED <<crew_vars, core_vars, pc, running_tasks, step, tool_uses,
                   assigned_at, history>>

\* Kernel.tick while Kernel.running is False
TickNotRunning ==
    /\ pc = "idle"
    /\ loaded
    /\ ~running
    /\ tick_ret' = "false"
    /\ UNCHANGED <<crew_vars, core_vars, pc, running_tasks, step, tool_uses,
                   assigned_at, history>>

\* a driver marks the kernel running before it ticks: Kernel.run, the
\* shell's tick command
Start ==
    /\ pc = "idle"
    /\ loaded
    /\ ~running
    /\ running' = TRUE
    /\ UNCHANGED <<crew_vars, task_queue, resource_monitor, tick_count, pc,
                   running_tasks, tick_ret, step, tool_uses, assigned_at,
                   history>>

\* the driver clears the mark when it is done: the finally blocks of
\* Kernel.run and of the shell's tick command
Stop ==
    /\ pc = "idle"
    /\ running
    /\ running' = FALSE
    /\ UNCHANGED <<crew_vars, task_queue, resource_monitor, tick_count, pc,
                   running_tasks, tick_ret, step, tool_uses, assigned_at,
                   history>>

\* Kernel.tick of a running kernel, up to the snapshot of the RUNNING tasks
TickPass ==
    /\ pc = "idle"
    /\ loaded
    /\ running
    /\ tick_count' = tick_count + 1
    /\ LET w == schedule_next(process,
                              [tasks |-> tasks, agents |-> agents,
                               task_queue |-> task_queue],
                              task_order)
       IN  /\ tasks' = w.tasks
           /\ agents' = w.agents
           /\ task_queue' = w.task_queue
           /\ running_tasks' = get_tasks_by_state(w.tasks, task_order, "RUNNING")
           /\ assigned_at' =
                  [t \in Tids |->
                      IF tasks[t].state # "ASSIGNED" /\ w.tasks[t].state = "ASSIGNED"
                      THEN tick_count + 1 ELSE assigned_at[t]]
    /\ history' = [history EXCEPT
                      !.running_at_start =
                          {t \in Tids : tasks[t].state = "RUNNING"}]
    /\ pc' = "work"
    /\ tick_ret' = "none"
    /\ step' = NoStep
    /\ UNCHANGED <<declaration, loaded, process, task_order, resource_monitor,
                   running, tool_uses>>

\* the ticks of a run of at most MaxTicks ticks
TickBegin == tick_count < MaxTicks /\ TickPass

\* the loop of tick() works on the task: it is still RUNNING and its agent
\* is RUNNING_TASK
workable(tid) ==
    /\ tasks[tid].state = "RUNNING"
    /\ tasks[tid].assigned_agent_id # None
    /\ tasks[tid].assigned_agent_id[1] \in DOMAIN agents
    /\ agents[tasks[tid].assigned_agent_id[1]].state = "RUNNING_TASK"

\* tick(): the loop passes over a task of the snapshot
WorkSkip ==
    /\ pc = "work"
    /\ running_tasks # << >>
    /\ ~workable(Head(running_tasks))
    /\ running_tasks' = Tail(running_tasks)
    /\ step' = [tid |-> Some(Head(running_tasks)), outcome |-> "skipped"]
    /\ UNCHANGED <<crew_vars, core_vars, pc, tick_ret, tool_uses, assigned_at,
                   history>>

\* tick(): one _simulate_agent_work, for the decisions d1 (and d2 after a
\* tool) of the oracle
Work(d1, raises, d2) ==
    /\ pc = "work"
    /\ running_tasks # << >>
    /\ workable(Head(running_tasks))
    /\ dispatches(d1) => tool_uses < MaxToolUse
    /\ LET tid == Head(running_tasks)
           aid == tasks[tid].assigned_agent_id[1]
           o == simulate_agent_work(
                    [tasks |-> tasks, agents |-> agents, rm |-> resource_monitor],
                    aid, tid, d1, raises, d2, task_order)
       IN  /\ tasks' = o.k.tasks
           /\ agents' = o.k.agents
           /\ resource_monitor' = o.k.rm
           /\ step' = [tid |-> Some(tid), aid |-> aid, outcome |-> o.outcome,
                       first |-> d1, dispatch |-> o.dispatch,
                       second |-> IF o.calls = 2 THEN d2 ELSE [kind |-> "none"],
                       calls |-> o.calls,
                       path |-> agent_path(agents, aid, d1, o),
                       before |-> [tasks |-> tasks, agents |-> agents,
                                   rm |-> resource_monitor]]
           /\ history' = [history EXCEPT
                             !.all_final = @ /\ o.outcome = "completed"
                                             /\ o.calls = 1,
                             !.running_at_start =
                                 IF o.outcome = "raised" THEN {} ELSE @]
           /\ IF o.outcome = "raised"
              THEN /\ pc' = "idle"
                   /\ running_tasks' = << >>
                   /\ tick_ret' = "raised"
              ELSE /\ running_tasks' = Tail(running_tasks)
                   /\ UNCHANGED <<pc, tick_ret>>
    /\ tool_uses' = IF dispatches(d1) THEN tool_uses + 1 ELSE tool_uses
    /\ UNCHANGED <<declaration, loaded, process, task_order, task_queue,
                   tick_count, running, assigned_at>>

\* the oracle decides without a tool
WorkDecide ==
    \E d1 \in NonToolDecisions \cup
              {d \in ToolDecisions : ~dispatches(d)} :
        Work(d1, "ok", d1)

\* the oracle asks for a tool, and decides again after the dispatch
WorkUseTool ==
    \E d1 \in {d \in ToolDecisions : dispatches(d)} :
        \E raises \in (IF d1.tool_name[1] \in ToolNames
                       THEN ToolBehaviours(d1.tool_name[1]) ELSE {"ok"}),
           d2 \in SecondDecisions :
            /\ (~binds(d1) \/ d1.tool_name[1] = Unhashable)
                   => d2 = [kind |-> "invalid"]
            /\ Work(d1, raises, d2)

\* tick(): the end of the loop, the termination check and the return
TickEnd ==
    /\ pc = "work"
    /\ running_tasks = << >>
    /\ pc' = "idle"
    /\ running' = (running /\ ~all_tasks_done(tasks))
    /\ tick_ret' = IF all_tasks_done(tasks) THEN "false" ELSE "true"
    /\ step' = NoStep
    /\ history' = [history EXCEPT !.running_at_start = {}]
    /\ UNCHANGED <<crew_vars, task_queue, resource_monitor, tick_count,
                   running_tasks, tool_uses, assigned_at>>

Next ==
    \/ LoadCrew
    \/ Reset
    \/ TickNoCrew
    \/ Start
    \/ Stop
    \/ TickNotRunning
    \/ TickBegin
    \/ WorkSkip
    \/ WorkDecide
    \/ WorkUseTool
    \/ TickEnd

Spec == Init /\ [][Next]_vars

\* ------------------------------------------------- the TaskManager alone
\* the task table in any state a caller of the TaskManager can bring it to:
\* each task PENDING, RUNNING with a result already added, or COMPLETED
\* with or without a result
TableEntries ==
    {[state |-> "PENDING", result |-> None],
     [state |-> "RUNNING", result |-> Some("x")],
     [state |-> "COMPLETED", result |-> None]}
    \cup {[state |-> "COMPLETED", result |-> Some(c)] : c \in Contents}

\* dependency lists of the tables: none, an unknown id, the previous task,
\* the two previous tasks in either order
TableDeps(t) ==
    {<< >>, <<UnknownTid>>}
    \cup (IF t >= 1 THEN {<<t - 1>>} ELSE {})
    \cup (IF t >= 2 THEN {<<t - 2, t - 1>>, <<t - 1, t - 2>>} ELSE {})

Tables ==
    {ts \in [Tids -> [assigned_agent_id : {None},
                      dependencies : UNION {TableDeps(t) : t \in Tids},
                      state : {e.state : e \in TableEntries},
                      context : {None},
                      result : {e.result : e \in TableEntries}]] :
        \A t \in Tids :
            /\ ts[t].dependencies \in TableDeps(t)
            /\ [state |-> ts[t].state, result |-> ts[t].result] \in TableEntries}

InitTM ==
    /\ tasks \in Tables
    /\ declaration = [deps |-> [t \in Tids |-> tasks[t].dependencies],
                      process |-> "SEQUENTIAL"]
    /\ loaded = TRUE
    /\ process = "SEQUENTIAL"
    /\ task_order = Identity
    /\ agents = FreshAgents
    /\ task_queue = << >>
    /\ resource_monitor = ResourceMonitor
    /\ tick_count = 0
    /\ running = FALSE
    /\ pc = "tm"
    /\ running_tasks = << >>
    /\ tick_ret = "none"
    /\ step = NoStep
    /\ tool_uses = 0
    /\ assigned_at = [t \in Tids |-> 0]
    /\ history = FreshHistory

tm_frame == <<declaration, loaded, process, task_order, agents, core_vars,
              running_tasks, tick_ret, tool_uses, assigned_at, history>>

\* a call of TaskManager.check_and_update_task_readiness
CheckReadiness ==
    /\ pc = "tm"
    /\ tasks' = check_and_update_task_readiness(tasks, task_order)
    /\ step' = [tid |-> None, outcome |-> "readiness", before |-> tasks]
    /\ pc' = "tm_done"
    /\ UNCHANGED tm_frame

\* a call of TaskManager.build_context
BuildContext ==
    /\ pc = "tm"
    /\ \E t \in Tids :
        /\ tasks' = build_context(tasks, t)
        /\ step' = [tid |-> Some(t), outcome |-> "build_context",
                    before |-> tasks]
    /\ pc' = "tm_done"
    /\ UNCHANGED tm_frame

\* a call of TaskManager.update_task_state, for a task of the table or an
\* id that no task has
UpdateTaskState ==
    /\ pc = "tm"
    /\ \E t \in Tids \cup {UnknownTid}, s \in TaskStates :
        /\ tasks' = update_task_state(tasks, t, s)
        /\ step' = [tid |-> Some(t), outcome |-> "update_state",
                    new_state |-> s, report |-> task_report(tasks, t),
                    before |-> tasks]
    /\ pc' = "tm_done"
    /\ UNCHANGED tm_frame

\* a call of TaskManager.add_result
AddResult ==
    /\ pc = "tm"
    /\ \E t \in Tids \cup {UnknownTid}, c \in Contents :
        /\ tasks' = add_result(tasks, t, c)
        /\ step' = [tid |-> Some(t), outcome |-> "add_result",
                    result |-> c, report |-> task_report(tasks, t),
                    before |-> tasks]
    /\ pc' = "tm_done"
    /\ UNCHANGED tm_frame

NextTM == CheckReadiness \/ BuildContext \/ UpdateTaskState \/ AddResult

SpecTM == InitTM /\ [][NextTM]_vars

\* --------------------------------------------- the ResourceMonitor alone
\* what a caller may hand to record_usage: the two kinds with a total and
\* one without, amounts on both sides of zero
UsageTypes == {"tokens", "tool_calls", "other"}
Amounts == {-1, 0, 1, web_search_cost}
RecordTasks == {0, 1}

InitRM ==
    /\ declaration = [deps |-> [t \in Tids |-> << >>], process |-> "SEQUENTIAL"]
    /\ loaded = FALSE
    /\ process = "NONE"
    /\ task_order = << >>
    /\ tasks = << >>
    /\ agents = << >>
    /\ task_queue = << >>
    /\ resource_monitor = ResourceMonitor
    /\ tick_count = 0
    /\ running = FALSE
    /\ pc = "rm"
    /\ running_tasks = << >>
    /\ tick_ret = "none"
    /\ step = NoStep
    /\ tool_uses = 0
    /\ assigned_at = << >>
    /\ history = FreshHistory

rm_frame == <<crew_vars, task_queue, tick_count, running, pc, running_tasks,
              tick_ret, tool_uses, assigned_at, history>>

\* a call of ResourceMonitor.record_usage
RecordUsage ==
    /\ pc = "rm"
    /\ Len(resource_monitor.usage_log) < MaxRecords
    /\ \E usage_type \in UsageTypes, task_id \in RecordTasks, amount \in Amounts :
        /\ resource_monitor' =
               record_usage(resource_monitor, usage_type, 0, task_id, amount)
        /\ step' = [tid |-> None, outcome |-> "record",
                    entry |-> <<usage_type, 0, task_id, amount>>,
                    before |-> resource_monitor]
    /\ UNCHANGED rm_frame

\* a call of ResourceMonitor.get_report
GetReport ==
    /\ pc = "rm"
    /\ step' = [tid |-> None, outcome |-> "report",
                report |-> get_report(resource_monitor),
                before |-> resource_monitor]
    /\ UNCHANGED <<resource_monitor, rm_frame>>

NextRM == RecordUsage \/ GetReport

SpecRM == InitRM /\ [][NextRM]_vars

\* ------------------------------------------------- the Scheduler alone
\* driven through its methods: a loaded SEQUENTIAL
\* crew, on which a client assigns and releases by hand, tasks complete,
\* and scheduling passes run.

\* the task orders a scheduler is built with: the crew's, one with an id
\* that no task has, one that lists the first task three times
QueueChoices ==
    {Identity, <<UnknownTid>> \o Identity, <<0, 0>> \o Identity}

InitSched ==
    /\ declaration \in [deps : WellFormed, process : {"SEQUENTIAL"}]
    /\ loaded = TRUE
    /\ process = "SEQUENTIAL"
    /\ task_order = Identity
    /\ tasks = FreshTasks(declaration.deps)
    /\ agents = FreshAgents
    /\ \E order \in QueueChoices :
           task_queue = initial_queue("SEQUENTIAL", order)
    /\ resource_monitor = ResourceMonitor
    /\ tick_count = 0
    /\ running = FALSE
    /\ pc = "sched"
    /\ running_tasks = << >>
    /\ tick_ret = "none"
    /\ step = NoStep
    /\ tool_uses = 0
    /\ assigned_at = [t \in Tids |-> 0]
    /\ history = FreshHistory

sched_frame == <<declaration, loaded, process, task_order, tick_count,
                 running, pc, running_tasks, tick_ret, tool_uses, assigned_at,
                 history>>

\* a call of AgentScheduler.assign_task_to_agent, for a task that has not
\* started and any agent
AssignTaskToAgent ==
    /\ pc = "sched"
    /\ \E t \in {u \in Tids : tasks[u].state \in {"READY", "ASSIGNED"}},
          a \in Aids :
        LET w == assign_task_to_agent(
                     [tasks |-> tasks, agents |-> agents,
                      task_queue |-> task_queue], t, a)
        IN  /\ tasks' = w.tasks
            /\ agents' = w.agents
            /\ step' = [tid |-> Some(t), outcome |-> "assign"]
    /\ UNCHANGED <<sched_frame, task_queue, resource_monitor>>

\* a call of AgentScheduler.release_agent, for an agent of the pool or an
\* id that no agent has
ReleaseAgent ==
    /\ pc = "sched"
    /\ \E a \in Aids \cup {UnknownAid} :
        /\ agents' = release_agent(agents, a)
        /\ step' = [tid |-> None, outcome |-> "release", agent_id |-> a,
                    before |-> [tasks |-> tasks, agents |-> agents,
                                rm |-> resource_monitor]]
    /\ UNCHANGED <<sched_frame, tasks, task_queue, resource_monitor>>

\* a work step that gets a final answer at once: the consultation is
\* charged, the result stored, the task COMPLETED, the agent released,
\* readiness recomputed
Complete ==
    /\ pc = "sched"
    /\ \E t \in Tids, c \in Contents :
        /\ workable(t)
        /\ LET aid == tasks[t].assigned_agent_id[1]
               o == final_answer(
                        call_ollama([tasks |-> tasks, agents |-> agents,
                                     rm |-> resource_monitor], aid, t),
                        aid, t, [kind |-> "final", content |-> Some(c)],
                        task_order, None, 1)
           IN  /\ tasks' = o.k.tasks
               /\ agents' = o.k.agents
               /\ resource_monitor' = o.k.rm
        /\ step' = [tid |-> Some(t), outcome |-> "completed"]
    /\ UNCHANGED <<sched_frame, task_queue>>

\* a call of AgentScheduler.schedule_next
SchedulePass ==
    /\ pc = "sched"
    /\ LET w == schedule_next(process,
                              [tasks |-> tasks, agents |-> agents,
                               task_queue |-> task_queue],
                              task_order)
       IN  /\ tasks' = w.tasks
           /\ agents' = w.agents
           /\ task_queue' = w.task_queue
    /\ step' = [tid |-> None, outcome |-> "pass",
                before |-> [tasks |-> tasks, agents |-> agents,
                            task_queue |-> task_queue]]
    /\ UNCHANGED <<sched_frame, resource_monitor>>

NextSched == AssignTaskToAgent \/ ReleaseAgent \/ Complete \/ SchedulePass

SpecSched == InitSched /\ [][NextSched]_vars

\* ------------------------------------------- one run, driven to its end
\* a SEQUENTIAL crew whose declared order respects the dependencies, loaded
\* once and never reset; the driver keeps ticking (Kernel.run, the shell's
\* tick command) and every tick that started runs to its end
InitLive ==
    /\ Init
    /\ declaration.deps \in WellFormed
    /\ declaration.process = "SEQUENTIAL"

LoadOnce == ~loaded /\ LoadCrew

\* the ticks of the run: those in which the oracle may withhold its answer,
\* and two more for each task (one to assign it, one to work it)
LiveTicks == MaxTicks + 2 * NumTasks

TickBeginLive == tick_count < LiveTicks /\ TickPass

\* a work step; after MaxTicks ticks the oracle answers at once.  Every
\* answer has the same content, which has no part in progress.
WorkLive ==
    /\ WorkDecide \/ WorkUseTool
    /\ tick_count > MaxTicks => step'.outcome = "completed"
    /\ \A t \in Tids : tasks'[t].result \in {None, Some("x")}

NextLive ==
    \/ LoadOnce
    \/ Start
    \/ Stop
    \/ TickNotRunning
    \/ TickBeginLive
    \/ WorkSkip
    \/ WorkLive
    \/ TickEnd

SpecLive ==
    /\ InitLive
    /\ [][NextLive]_vars
    /\ WF_vars(LoadOnce)
    /\ WF_vars(Start)
    /\ SF_vars(TickBeginLive)
    /\ WF_vars(WorkSkip \/ WorkLive \/ TickEnd)

\* ------------------------------------------------------------- properties
\* a task is bound to an agent: the states of both and both references
BoundTo(t, a, task_state, agent_state) ==
    /\ tasks[t].state = task_state
    /\ tasks[t].assigned_agent_id = Some(a)
    /\ agents[a].state = agent_state
    /\ agents[a].current_task_id = Some(t)

\* the tasks in ASSIGNED or RUNNING whose assigned agent is a
ActiveTasksOf(a) ==
    {t \in DOMAIN tasks : /\ tasks[t].assigned_agent_id = Some(a)
                          /\ tasks[t].state \in {"ASSIGNED", "RUNNING"}}

\* C1: no double-booking.  In every state each agent is the assigned agent
\* of at most one task in ASSIGNED or RUNNING, and no task is the current
\* task of two agents.
NoDoubleBooking ==
    /\ \A a \in DOMAIN agents : Cardinality(ActiveTasksOf(a)) <= 1
    /\ \A t \in DOMAIN tasks :
           Cardinality({a \in DOMAIN agents :
                           agents[a].current_task_id = Some(t)}) <= 1

\* C1 witness: every agent holds exactly one active task while the head of
\* the queue is READY and waits
NoDoubleBookingWitness ==
    /\ loaded
    /\ task_queue # << >>
    /\ tasks[Head(task_queue)].state = "READY"
    /\ \A a \in DOMAIN agents :
           agents[a].state # "IDLE" /\ Cardinality(ActiveTasksOf(a)) = 1

\* the scenario of the specification: T0 and T1 without dependencies, T2
\* depending on [T0, T1], loaded under SEQUENTIAL and never reset
Scenario ==
    /\ loaded
    /\ process = "SEQUENTIAL"
    /\ ~history.reset
    /\ declaration.deps[0] = << >>
    /\ declaration.deps[1] = << >>
    /\ declaration.deps[2] = <<0, 1>>

\* the scenario between two ticks, n ticks after the load
AfterTick(n) == Scenario /\ pc = "idle" /\ tick_count = n

\* C2 as claimed: tick 1 leaves T0 and T1 ASSIGNED to A0 and A1; tick 2,
\* with final answers only, leaves both COMPLETED and A0, A1 IDLE; tick 3
\* leaves T2 ASSIGNED.
ScenarioAsClaimed ==
    /\ AfterTick(1) =>
           /\ BoundTo(0, 0, "ASSIGNED", "ASSIGNED")
           /\ BoundTo(1, 1, "ASSIGNED", "ASSIGNED")
    /\ (AfterTick(2) /\ history.all_final) =>
           /\ tasks[0].state = "COMPLETED" /\ tasks[1].state = "COMPLETED"
           /\ agents[0].state = "IDLE" /\ agents[1].state = "IDLE"
    /\ (AfterTick(3) /\ history.all_final) =>
           /\ tasks[2].state = "ASSIGNED"
           /\ tasks[2].assigned_agent_id # None

\* C2 amended: a pass assigns one task.  Tick 1 leaves T0 ASSIGNED to A0
\* and T1 READY; tick 2 runs T0 and assigns T1 to A1; tick 3 runs T1 and
\* its completion makes T2 READY; tick 4 assigns T2 to A0, the first IDLE
\* agent.  A task worked with a final answer is COMPLETED and its agent
\* IDLE at the end of that tick.
ScenarioTrace ==
    /\ AfterTick(1) =>
           /\ BoundTo(0, 0, "ASSIGNED", "ASSIGNED")
           /\ tasks[1].state = "READY"
           /\ agents[1].state = "IDLE"
           /\ tasks[2].state = "PENDING"
    /\ (AfterTick(2) /\ history.all_final) =>
           /\ tasks[0].state = "COMPLETED"
           /\ agents[0].state = "IDLE"
           /\ BoundTo(1, 1, "ASSIGNED", "ASSIGNED")
           /\ tasks[2].state = "PENDING"
    /\ (AfterTick(3) /\ history.all_final) =>
           /\ tasks[0].state = "COMPLETED" /\ tasks[1].state = "COMPLETED"
           /\ agents[0].state = "IDLE" /\ agents[1].state = "IDLE"
           /\ tasks[2].state = "READY"
    /\ (AfterTick(4) /\ history.all_final) =>
           BoundTo(2, 0, "ASSIGNED", "ASSIGNED")

\* C2 witness: the scenario after its fourth tick, every work step so far
\* having ended with a final answer
ScenarioTraceWitness ==
    /\ AfterTick(4)
    /\ history.all_final
    /\ tasks[2].state = "ASSIGNED"

\* the state right after a call of the TaskManager
AfterCall(op) == pc = "tm_done" /\ step.outcome = op

\* C3: a readiness check makes a PENDING task READY iff each of its
\* dependencies is in the table and COMPLETED (so always when it has none),
\* changes nothing else of that task, and leaves every other task as it was.
ReadinessCheck ==
    AfterCall("readiness") =>
        \A t \in Tids :
            LET b == step.before[t]
                met == \A i \in 1 .. Len(b.dependencies) :
                           /\ b.dependencies[i] \in Tids
                           /\ step.before[b.dependencies[i]].state = "COMPLETED"
            IN  IF b.state = "PENDING" /\ met
                THEN tasks[t] = [b EXCEPT !.state = "READY"]
                ELSE tasks[t] = b

\* C3 witness: one check promotes a task with a dependency and leaves
\* another PENDING task, whose dependency does not exist, PENDING
ReadinessCheckWitness ==
    /\ AfterCall("readiness")
    /\ \E t \in Tids :
           /\ step.before[t].state = "PENDING"
           /\ step.before[t].dependencies # << >>
           /\ tasks[t].state = "READY"
    /\ \E t \in Tids :
           /\ step.before[t].dependencies = <<UnknownTid>>
           /\ tasks[t].state = "PENDING"

\* C4: build_context(t) leaves a context iff every dependency of t is
\* COMPLETED with a result; the context then lists the results in the order
\* of the dependency list; otherwise the context is None, never a part of
\* it.  Nothing else changes.
ContextBuilt ==
    AfterCall("build_context") =>
        LET t == step.tid[1]
            b == step.before
            deps == b[t].dependencies
            usable == \A i \in 1 .. Len(deps) :
                          /\ deps[i] \in Tids
                          /\ b[deps[i]].state = "COMPLETED"
                          /\ b[deps[i]].result # None
        IN  /\ (tasks[t].context # None) <=> usable
            /\ usable =>
                   tasks[t].context =
                       Some([i \in 1 .. Len(deps) |->
                                <<deps[i], b[deps[i]].result[1]>>])
            /\ tasks = [b EXCEPT ![t].context = tasks[t].context]

\* C4 witness: a context of two results, the dependency list naming the
\* later task first
ContextBuiltWitness ==
    /\ AfterCall("build_context")
    /\ tasks[step.tid[1]].context # None
    /\ Len(tasks[step.tid[1]].dependencies) = 2
    /\ tasks[step.tid[1]].dependencies[1] > tasks[step.tid[1]].dependencies[2]
    /\ tasks[step.tid[1]].context[1][1][2] # tasks[step.tid[1]].context[1][2][2]

\* the last work step made a dispatch that execute_tool answered
HasDispatch ==
    /\ step.outcome \in {"running", "completed", "raised"}
    /\ step.dispatch # None

\* a dispatch recorded one tool call and the tool's cost, once, in the
\* ledger and on the agent
ChargedOnce(d, aid, tid) ==
    LET cost == tool_cost(d.tool_name) IN
    /\ d.after.rm.total_tool_calls = d.before.rm.total_tool_calls + 1
    /\ d.after.rm.total_tokens_used = d.before.rm.total_tokens_used + cost
    /\ d.after.rm.usage_log =
           d.before.rm.usage_log \o
               << <<"tool_calls", aid, tid, 1>>, <<"tokens", aid, tid, cost>> >>
    /\ d.after.agents =
           [d.before.agents EXCEPT ![aid].tool_calls = @ + 1,
                                   ![aid].tokens = @ + cost]

\* C5 as claimed: every dispatch, whatever the agent and the tool name,
\* records one tool call and the tool's cost.
EveryDispatchCharged ==
    HasDispatch => ChargedOnce(step.dispatch[1], step.aid, step.tid[1])

\* C5 amended: a dispatch that passes the authorization and the lookup
\* records exactly one tool call and the tool's declared cost, in the
\* ledger and on the agent, whether the tool returns, rejects its arguments
\* or raises; a dispatch that is refused records nothing.
ChargedOncePerDispatch ==
    HasDispatch =>
        LET d == step.dispatch[1] IN
        IF d.tool_name \in agent_tools(step.aid) \cap RegisteredTools
        THEN ChargedOnce(d, step.aid, step.tid[1])
        ELSE d.after = d.before

\* C5 witness: the tool raised, and its cost was recorded
ChargedOncePerDispatchWitness ==
    /\ HasDispatch
    /\ step.dispatch[1].raises = "error"
    /\ step.dispatch[1].invoked
    /\ step.dispatch[1].after.rm.total_tool_calls = 1

\* C6: no fault of the tool-use step leaves the work step: no tick ends
\* with an exception, and between two ticks no agent is left in USING_TOOL.
ToolFaultContained ==
    /\ tick_ret # "raised"
    /\ step.outcome # "raised"
    /\ pc = "idle" => \A a \in DOMAIN agents : agents[a].state # "USING_TOOL"

\* C7: a tool name outside the agent's allow-list is answered Unauthorized,
\* an allowed name outside the registry NotFound, and nothing else is; the
\* allow-list is looked at first; in both cases no tool is invoked and the
\* ledger and the agents' counters are as before the dispatch.
RefusedDispatch ==
    HasDispatch =>
        LET d == step.dispatch[1]
            allowed == d.tool_name \in agent_tools(step.aid)
            known == d.tool_name \in RegisteredTools
        IN  /\ (d.result = "Unauthorized") <=> ~allowed
            /\ (d.result = "NotFound") <=> (allowed /\ ~known)
            /\ d.result \in {"Unauthorized", "NotFound"} =>
                   ~d.invoked /\ d.after = d.before

\* C7 witness: a name that neither the allow-list nor the registry knows
\* was answered Unauthorized
RefusedDispatchWitness ==
    /\ HasDispatch
    /\ step.dispatch[1].tool_name = "nope"
    /\ step.dispatch[1].result = "Unauthorized"

\* C8: right after reset() the tasks and the agents are those of a fresh
\* load of the same declaration, and so is the result of the next
\* readiness check.
ResetIsFreshLoad ==
    step.outcome = "reset" =>
        /\ tasks = FreshTasks(declaration.deps)
        /\ agents = FreshAgents
        /\ check_and_update_task_readiness(tasks, task_order) =
               check_and_update_task_readiness(FreshTasks(declaration.deps),
                                               task_order)

\* every task is COMPLETED or FAILED
AllTerminal ==
    \A t \in DOMAIN tasks : tasks[t].state \in {"COMPLETED", "FAILED"}

\* C9 as claimed: tick() returns false only without a crew or with every
\* task terminal.
TickReturnAsClaimed ==
    tick_ret = "false" => (~loaded \/ AllTerminal)

\* C9 amended: a tick that is refused (no crew loaded, or the kernel not
\* marked running) returns false and changes nothing; a tick that runs
\* returns false if every task is terminal at its end and true otherwise,
\* unless its work step raised.
TickReturn ==
    [][/\ (pc = "idle" /\ tick_ret' \in {"true", "false"}
              /\ tick_ret' # tick_ret) =>
              /\ tick_ret' = "false"
              /\ ~loaded \/ ~running
              /\ UNCHANGED <<crew_vars, core_vars>>
       /\ (pc = "work" /\ pc' = "idle") =>
              \/ tick_ret' = "raised" /\ step'.outcome = "raised"
              \/ tick_ret' =
                     IF \A t \in Tids :
                            tasks'[t].state \in {"COMPLETED", "FAILED"}
                     THEN "false" ELSE "true"
       /\ pc' = "work" => tick_ret' = "none"]_vars

\* C9 witness: the tick that completed the last task returned false
TickReturnWitness ==
    /\ loaded
    /\ pc = "idle"
    /\ tick_ret = "false"
    /\ \A t \in Tids : tasks[t].state = "COMPLETED"

\* the head of the queue is READY once readiness is recomputed
HeadReady ==
    /\ task_queue # << >>
    /\ Head(task_queue) \in DOMAIN tasks
    /\ LET h == tasks[Head(task_queue)] IN
       \/ h.state = "READY"
       \/ /\ h.state = "PENDING"
          /\ \A i \in 1 .. Len(h.dependencies) :
                 /\ h.dependencies[i] \in DOMAIN tasks
                 /\ tasks[h.dependencies[i]].state = "COMPLETED"

\* C10: a scheduling pass whose queue head is not READY assigns no task and
\* leaves the queue as it is, whatever is READY behind the head; and a task
\* is assigned only after every task before it in the declared order, in a
\* strictly later pass.
HeadOfLineBlocking ==
    /\ [][(pc = "idle" /\ pc' = "work" /\ task_queue # << >> /\ ~HeadReady) =>
              /\ task_queue' = task_queue
              /\ \A t \in Tids : tasks'[t].state = "ASSIGNED" =>
                                     tasks[t].state = "ASSIGNED"
              /\ \A a \in Aids : agents'[a].state = "ASSIGNED" =>
                                     agents[a].state = "ASSIGNED"]_vars
    /\ [](loaded =>
              \A i, j \in Tids :
                  (i < j /\ assigned_at[j] > 0) =>
                      (assigned_at[i] > 0 /\ assigned_at[i] < assigned_at[j]))

\* C10 witness: right after a pass the head is still PENDING while a task
\* behind it is READY and an agent IDLE
HeadOfLineBlockingWitness ==
    /\ pc = "work"
    /\ step = NoStep
    /\ task_queue # << >>
    /\ tasks[Head(task_queue)].state = "PENDING"
    /\ \E i \in 2 .. Len(task_queue) : tasks[task_queue[i]].state = "READY"
    /\ \E a \in Aids : agents[a].state = "IDLE"

\* the states in which an agent holds a task
HoldingStates == {"ASSIGNED", "RUNNING_TASK", "USING_TOOL"}

\* C11: in every state an agent's task reference is set iff the agent is
\* ASSIGNED, RUNNING_TASK or USING_TOOL: an IDLE agent has none, and every
\* agent that is not IDLE has one.
TaskReferenceIffHolding ==
    \A a \in DOMAIN agents :
        /\ (agents[a].current_task_id # None) <=> (agents[a].state \in HoldingStates)
        /\ agents[a].state = "IDLE" => agents[a].current_task_id = None
        /\ agents[a].state # "IDLE" => agents[a].current_task_id # None

\* C11 witness: an agent released after completing its task (IDLE, no
\* reference) beside an agent that holds one
TaskReferenceIffHoldingWitness ==
    /\ loaded
    /\ step.outcome = "completed"
    /\ agents[step.aid].state = "IDLE"
    /\ agents[step.aid].current_task_id = None
    /\ \E a \in DOMAIN agents :
           agents[a].state \in HoldingStates /\ agents[a].current_task_id # None

\* C12: in every state a task has a result iff it is COMPLETED: a result
\* implies COMPLETED, and every COMPLETED task has a result.
ResultIffCompleted ==
    \A t \in DOMAIN tasks :
        /\ tasks[t].result # None => tasks[t].state = "COMPLETED"
        /\ tasks[t].state = "COMPLETED" => tasks[t].result # None

\* C12 witness: a task the work step just completed carries its result,
\* while a task that is not COMPLETED has none
ResultIffCompletedWitness ==
    /\ loaded
    /\ step.outcome = "completed"
    /\ tasks[step.tid[1]].state = "COMPLETED"
    /\ tasks[step.tid[1]].result \in {Some(c) : c \in Contents}
    /\ \E t \in DOMAIN tasks :
           tasks[t].state # "COMPLETED" /\ tasks[t].result = None

\* C13: within a run a COMPLETED task stays COMPLETED: every step other
\* than reset() and the load of a crew leaves each COMPLETED task COMPLETED,
\* and the work step that completes a task leaves it COMPLETED (the
\* readiness check at its end does not take the completion back).
CompletionMonotonic ==
    [][(~Reset /\ ~LoadCrew) =>
          /\ \A t \in DOMAIN tasks :
                 tasks[t].state = "COMPLETED" =>
                     (t \in DOMAIN tasks' /\ tasks'[t].state = "COMPLETED")
          /\ (pc = "work" /\ step'.outcome = "completed") =>
                 tasks'[step'.tid[1]].state = "COMPLETED"]_vars

\* C13 witness: a task completed in an earlier tick is still COMPLETED
\* after a later tick worked another task, without a reset in between
CompletionMonotonicWitness ==
    /\ loaded
    /\ ~history.reset
    /\ step.outcome \in {"running", "completed"}
    /\ \E t \in DOMAIN tasks :
           /\ t # step.tid[1]
           /\ tasks[t].state = "COMPLETED"
           /\ step.before.tasks[t].state = "COMPLETED"

\* a decision that is no decision: unparseable or without action, an
\* unknown action, a final answer without content, a use_tool without a
\* tool name or with arguments that are no mapping
InvalidDecision(d) ==
    \/ d.kind \in {"invalid", "unknown"}
    \/ d.kind = "final" /\ d.content = None
    \/ d.kind = "use_tool" /\ (d.arguments = "not_dict" \/ d.tool_name = None)

\* the work step recorded in st ended on an invalid decision: its first
\* one, or the one after the tool (where a repeated use_tool counts as one)
EndedInvalid(st) ==
    /\ st.outcome \in {"running", "completed", "raised"}
    /\ \/ st.calls = 1 /\ InvalidDecision(st.first)
       \/ st.calls = 2 /\ (InvalidDecision(st.second) \/ st.second.kind = "use_tool")

\* C14: a work step that ends on an invalid decision does not fault, leaves
\* the whole task table as it was (the task RUNNING) and its agent
\* RUNNING_TASK on the same task, so that the task is workable again; and
\* every tick takes every task that is RUNNING after its scheduling pass
\* into its snapshot, whatever the number of earlier attempts.
InvalidDecisionRetried ==
    [][/\ (pc = "work" /\ step' # step /\ EndedInvalid(step')) =>
              LET tid == step'.tid[1]
                  aid == step'.aid
              IN  /\ step'.outcome = "running"
                  /\ pc' = "work"
                  /\ tasks' = tasks
                  /\ tasks'[tid].state = "RUNNING"
                  /\ agents'[aid].state = agents[aid].state
                  /\ agents'[aid].state = "RUNNING_TASK"
                  /\ agents'[aid].current_task_id = Some(tid)
                  /\ \A a \in DOMAIN agents \ {aid} : agents'[a] = agents[a]
       /\ (pc = "idle" /\ pc' = "work") =>
              \A t \in DOMAIN tasks' :
                  tasks'[t].state = "RUNNING" =>
                      \E i \in 1 .. Len(running_tasks') : running_tasks'[i] = t
      ]_vars

\* C14 witness: a second attempt at a task ends on an invalid decision, the
\* first attempt having cost its agent one consultation and completed
\* nothing
InvalidDecisionRetriedWitness ==
    /\ loaded
    /\ ~history.reset
    /\ pc = "work"
    /\ EndedInvalid(step)
    /\ step.calls = 1
    /\ step.before.agents[step.aid].tokens = call_cost
    /\ \A t \in DOMAIN tasks : tasks[t].state # "COMPLETED"
    /\ tasks[step.tid[1]].state = "RUNNING"

\* C15: right after load_crew, whatever ran before, the crew is bound, the
\* report is {0, 0}, the ledger is empty, the tick count is 0 and the
\* kernel is not running; under SEQUENTIAL the queue is the declared order
\* of the crew's tasks.
LoadResetsRunState ==
    step.outcome = "load" =>
        /\ loaded
        /\ process = declaration.process
        /\ get_report(resource_monitor) =
               [total_tokens |-> 0, total_tool_calls |-> 0]
        /\ resource_monitor.usage_log = << >>
        /\ tick_count = 0
        /\ process = "SEQUENTIAL" =>
               /\ task_queue = task_order
               /\ task_queue = [i \in 1 .. NumTasks |-> i - 1]

\* C15 witness: a crew loaded over a run that had ticked at least twice
LoadResetsRunStateWitness ==
    /\ step.outcome = "load"
    /\ step.prior_ticks >= 2
    /\ process = "SEQUENTIAL"
    /\ task_queue = task_order
    /\ resource_monitor.usage_log = << >>

\* the sum of the amounts of the ledger entries of one kind
RECURSIVE ledger_sum(_, _)
ledger_sum(usage_log, usage_type) ==
    IF usage_log = << >> THEN 0
    ELSE (IF Head(usage_log)[1] = usage_type THEN Head(usage_log)[4] ELSE 0)
         + ledger_sum(Tail(usage_log), usage_type)

\* C16: the ledger only grows and agrees with the totals.  A record of a
\* non-positive amount changes nothing; a record of a positive amount
\* appends exactly its entry and adds the amount to the total of its kind
\* (to no total for a kind without one); the totals reported are the sums
\* of the ledger entries of their kind; get_report changes nothing.
LedgerConsistent ==
    LET rm == resource_monitor IN
    /\ get_report(rm).total_tokens = ledger_sum(rm.usage_log, "tokens")
    /\ get_report(rm).total_tool_calls = ledger_sum(rm.usage_log, "tool_calls")
    /\ \A i \in 1 .. Len(rm.usage_log) : rm.usage_log[i][4] > 0
    /\ (pc = "rm" /\ step.outcome = "record") =>
           LET b == step.before
               e == step.entry
           IN  IF e[4] <= 0
               THEN rm = b
               ELSE /\ rm.usage_log = b.usage_log \o <<e>>
                    /\ rm.total_tokens_used =
                           b.total_tokens_used
                               + (IF e[1] = "tokens" THEN e[4] ELSE 0)
                    /\ rm.total_tool_calls =
                           b.total_tool_calls
                               + (IF e[1] = "tool_calls" THEN e[4] ELSE 0)
    /\ (pc = "rm" /\ step.outcome = "report") =>
           /\ rm = step.before
           /\ step.report = [total_tokens |-> rm.total_tokens_used,
                             total_tool_calls |-> rm.total_tool_calls]

\* C16 witness: a record of a non-positive amount, refused, on a ledger
\* that already holds entries of both kinds
LedgerConsistentWitness ==
    /\ pc = "rm"
    /\ step.outcome = "record"
    /\ step.entry[4] <= 0
    /\ resource_monitor.total_tokens_used > 0
    /\ resource_monitor.total_tool_calls > 0
    /\ Len(resource_monitor.usage_log) >= 2

\* the oracle's final answer for task t has just been taken
FinalAnswerFor(t) == step.outcome = "completed" /\ step.tid = Some(t)

\* every task is COMPLETED and the last tick returned false
RunFinished ==
    /\ loaded
    /\ \A t \in Tids : tasks[t].state = "COMPLETED"
    /\ tick_ret = "false"

\* C17: in a run of a SEQUENTIAL crew whose declared order respects the
\* dependencies, if every task that is RUNNING eventually gets a final
\* answer from the oracle, then eventually every task is COMPLETED and
\* tick has returned false.
Progress ==
    (\A t \in Tids :
        [](loaded /\ tasks[t].state = "RUNNING" => <>FinalAnswerFor(t)))
    => <>RunFinished

\* C17 witness: a chain of tasks finished, after the oracle had withheld an
\* answer at least once
ProgressWitness ==
    /\ RunFinished
    /\ ~history.all_final
    /\ \A t \in Tids \ {0} : declaration.deps[t] = <<t - 1>>
    /\ tick_count >= 2 * NumTasks

\* task t of the declaration names a dependency that is not a task declared
\* before it: itself, a later task, or an id no task has
DependsAhead(t) ==
    \E i \in 1 .. Len(declaration.deps[t]) :
        declaration.deps[t][i] \notin 0 .. (t - 1)

\* the declaration is malformed under SEQUENTIAL, and a crew is loaded
MalformedLoaded ==
    /\ loaded
    /\ process = "SEQUENTIAL"
    /\ \E t \in Tids : DependsAhead(t)

\* the first task of the declared order that can never become READY
BlockedTask ==
    CHOOSE m \in Tids : DependsAhead(m) /\ \A t \in 0 .. (m - 1) : ~DependsAhead(t)

\* the blocked task is PENDING and no task declared after it has ever been
\* assigned
StalledBehind(m) ==
    /\ tasks[m].state = "PENDING"
    /\ \E i \in 1 .. Len(task_queue) : task_queue[i] = m
    /\ \A t \in Tids :
           t > m => /\ tasks[t].state \in {"PENDING", "READY"}
                    /\ assigned_at[t] = 0
                    /\ \E i \in 1 .. Len(task_queue) : task_queue[i] = t

\* C18 as claimed: with a malformed declaration loaded, the blocked task
\* stays PENDING, nothing behind it is assigned, and no tick returns
\* anything but true.
MalformedStallsAsClaimed ==
    MalformedLoaded =>
        /\ StalledBehind(BlockedTask)
        /\ tick_ret \in {"none", "true"}

\* C18 amended: a malformed declaration is loaded like any other; from then
\* on the blocked task is PENDING in every state and no task behind it is
\* ever assigned; every tick of a running kernel that reaches its end
\* returns true, a tick that returns false is one refused because the
\* kernel is not marked running, and a tick ends otherwise only by a fault
\* of its work step.
MalformedStalls ==
    /\ [](MalformedLoaded => StalledBehind(BlockedTask))
    /\ [][MalformedLoaded =>
              /\ (pc = "work" /\ pc' = "idle") =>
                     \/ tick_ret' = "true"
                     \/ tick_ret' = "raised" /\ step'.outcome = "raised"
              /\ (pc = "idle" /\ tick_ret' = "false" /\ tick_ret # "false") =>
                     ~running /\ UNCHANGED <<crew_vars, core_vars>>]_vars

\* C18 witness: the second task waits for the third; the first is done,
\* the second still PENDING at the head, the third READY behind it with
\* every agent IDLE, and the last tick of the run returned true
MalformedStallsWitness ==
    /\ MalformedLoaded
    /\ declaration.deps[1] = <<2>>
    /\ declaration.deps[2] = << >>
    /\ BlockedTask = 1
    /\ tasks[0].state = "COMPLETED"
    /\ tasks[1].state = "PENDING"
    /\ task_queue # << >> /\ Head(task_queue) = 1
    /\ tasks[2].state = "READY"
    /\ \A a \in Aids : agents[a].state = "IDLE"
    /\ tick_count = MaxTicks
    /\ tick_ret = "true"

\* the work steps of a tick

WorkOutcomes == {"running", "completed", "raised"}

\* the tasks that are RUNNING in a task table
RunningIn(ts) == {t \in Tids : ts[t].state = "RUNNING"}

\* the tasks of a sequence
Range(s) == {s[i] : i \in DOMAIN s}

\* C19 as stated: a tick works exactly the tasks that were RUNNING when it
\* was called, so a task that became RUNNING during the tick is not worked
\* in it.
TickWorksStartSetAsClaimed ==
    (pc = "work" /\ step.outcome \in WorkOutcomes) =>
        step.tid[1] \in history.running_at_start

\* C19: a tick is one scheduling pass, then a loop over one snapshot, taken
\* after the pass, of the tasks that are RUNNING then, each of them once and
\* in declaration order, those the pass has just promoted included. Each
\* entry of the snapshot is passed exactly once: it gets one work step if
\* the task is still RUNNING and its agent is RUNNING_TASK, and is skipped
\* otherwise. No task becomes RUNNING during the loop, a task that left
\* RUNNING is not worked again, and the tick ends when the snapshot is
\* exhausted or a work step raises.
TickWorksSnapshot ==
    [][ /\ (pc = "idle" /\ pc' = "work") =>
              /\ Range(running_tasks') = RunningIn(tasks')
              /\ Len(running_tasks') = Cardinality(RunningIn(tasks'))
              /\ RunningIn(tasks) \subseteq RunningIn(tasks')
              /\ history'.running_at_start = RunningIn(tasks)
        /\ (pc = "work" /\ step' # step /\ step'.outcome \in WorkOutcomes) =>
              /\ running_tasks # << >>
              /\ step'.tid = Some(Head(running_tasks))
              /\ tasks[Head(running_tasks)].state = "RUNNING"
              /\ agents[step'.aid].state = "RUNNING_TASK"
              /\ Head(running_tasks) \notin Range(Tail(running_tasks))
              /\ running_tasks' =
                     IF step'.outcome = "raised" THEN << >>
                     ELSE Tail(running_tasks)
        /\ (pc = "work" /\ step' # step /\ step'.outcome = "skipped") =>
              /\ running_tasks # << >>
              /\ step'.tid = Some(Head(running_tasks))
              /\ running_tasks' = Tail(running_tasks)
              /\ \/ tasks[Head(running_tasks)].state # "RUNNING"
                 \/ \E a \in Aids :
                        /\ tasks[Head(running_tasks)].assigned_agent_id = Some(a)
                        /\ agents[a].state # "RUNNING_TASK"
              /\ tasks' = tasks /\ agents' = agents
        /\ pc = "work" =>
              /\ RunningIn(tasks') \subseteq RunningIn(tasks)
              /\ Range(running_tasks') \subseteq Range(running_tasks)
              /\ tick_count' = tick_count
              /\ task_queue' = task_queue
        /\ (pc = "work" /\ pc' = "idle") =>
              \/ running_tasks = << >> /\ tick_ret' \in {"true", "false"}
              \/ step'.outcome = "raised" /\ tick_ret' = "raised"
      ]_vars

\* a tick has worked a task that was RUNNING when it was called and then a
\* task its own scheduling pass promoted, and its snapshot is exhausted
TickWorksSnapshotWitness ==
    /\ pc = "work"
    /\ running_tasks = << >>
    /\ step.outcome \in {"running", "completed"}
    /\ history.running_at_start # {}
    /\ step.tid[1] \notin history.running_at_start
    /\ \E t \in history.running_at_start :
           step.before.tasks[t].state = "COMPLETED"

\* the promotion condition, on the tables before a scheduling pass
Confirms(b, t) ==
    \E a \in Aids :
        /\ b.tasks[t].assigned_agent_id = Some(a)
        /\ b.agents[a].state = "ASSIGNED"
        /\ b.agents[a].current_task_id = Some(t)

\* the context a promotion stores: the results, at that moment, of the
\* dependencies that are COMPLETED with a result
ContextAt(b, t) == build_context(b.tasks, t)[t].context

\* C20: a SEQUENTIAL scheduling pass starts with the promotion step. Every
\* task that was ASSIGNED before the pass, with a bound agent that was in
\* state ASSIGNED and had that task as its current task, is RUNNING after
\* it, its agent is RUNNING_TASK and still holds the task, and its context
\* is the one built from the tables of that moment; every other field of
\* the task is as before. An ASSIGNED task whose agent does not satisfy the
\* condition is left exactly as it was.
PromotionStep ==
    step.outcome = "pass" =>
        \A t \in Tids :
            step.before.tasks[t].state = "ASSIGNED" =>
                IF Confirms(step.before, t)
                THEN /\ tasks[t] = [step.before.tasks[t] EXCEPT
                                       !.state = "RUNNING",
                                       !.context = ContextAt(step.before, t)]
                     /\ \E a \in Aids :
                            /\ tasks[t].assigned_agent_id = Some(a)
                            /\ agents[a].state = "RUNNING_TASK"
                            /\ agents[a].current_task_id = Some(t)
                ELSE tasks[t] = step.before.tasks[t]

\* a pass has promoted a task whose dependency had a result, storing a
\* context with that result, and has left alone an ASSIGNED task whose
\* agent was no longer ASSIGNED to it
PromotionStepWitness ==
    /\ step.outcome = "pass"
    /\ \E t, u \in Tids :
        /\ step.before.tasks[t].state = "ASSIGNED"
        /\ Confirms(step.before, t)
        /\ step.before.tasks[t].context # tasks[t].context
        /\ tasks[t].context \notin {None, Some(<< >>)}
        /\ step.before.tasks[u].state = "ASSIGNED"
        /\ ~Confirms(step.before, u)
        /\ tasks[u].state = "ASSIGNED"

\* the dependencies of task t are all known and COMPLETED in the tables b
DepsCompletedAt(b, t) ==
    \A i \in 1 .. Len(b.tasks[t].dependencies) :
        /\ b.tasks[t].dependencies[i] \in Tids
        /\ b.tasks[b.tasks[t].dependencies[i]].state = "COMPLETED"

\* the head of the queue is READY once readiness is recomputed
HeadReadyAt(b) ==
    /\ b.task_queue # << >>
    /\ Head(b.task_queue) \in Tids
    /\ \/ b.tasks[Head(b.task_queue)].state = "READY"
       \/ /\ b.tasks[Head(b.task_queue)].state = "PENDING"
          /\ DepsCompletedAt(b, Head(b.task_queue))

IdleAt(b) == {a \in Aids : b.agents[a].state = "IDLE"}

\* the first IDLE agent in pool order
FirstIdle(b) == CHOOSE a \in IdleAt(b) : \A x \in IdleAt(b) : a <= x

\* what the assignment step does to the head h and the agent f
BoundAt(b, h, f) ==
    /\ task_queue = Tail(b.task_queue)
    /\ tasks[h] = [b.tasks[h] EXCEPT !.state = "ASSIGNED",
                                     !.assigned_agent_id = Some(f)]
    /\ agents[f] = [b.agents[f] EXCEPT !.state = "ASSIGNED",
                                       !.current_task_id = Some(h)]

\* the tasks and agents, other than h and f, that the promotion step does
\* not touch are as they were
OthersUntouched(b, hs, fs) ==
    /\ \A t \in Tids \ hs :
           b.tasks[t].state # "ASSIGNED" => tasks[t] = b.tasks[t]
    /\ \A a \in Aids \ fs :
           b.agents[a].state # "ASSIGNED" => agents[a] = b.agents[a]

\* the same, but for the PENDING tasks the readiness check makes READY
OthersUntouchedButReady(b, hs, fs) ==
    /\ \A t \in Tids \ hs :
           b.tasks[t].state # "ASSIGNED" =>
               tasks[t] = IF b.tasks[t].state = "PENDING"
                             /\ DepsCompletedAt(b, t)
                          THEN [b.tasks[t] EXCEPT !.state = "READY"]
                          ELSE b.tasks[t]
    /\ \A a \in Aids \ fs :
           b.agents[a].state # "ASSIGNED" => agents[a] = b.agents[a]

\* C21 as stated: the assignment step binds the READY head to the first
\* IDLE agent and changes no other task or agent; with no IDLE agent the
\* queue and all states are unchanged.
AssignmentStepAsClaimed ==
    (step.outcome = "pass" /\ HeadReadyAt(step.before)) =>
        IF IdleAt(step.before) # {}
        THEN /\ BoundAt(step.before, Head(step.before.task_queue),
                        FirstIdle(step.before))
             /\ OthersUntouched(step.before,
                                {Head(step.before.task_queue)},
                                {FirstIdle(step.before)})
        ELSE /\ task_queue = step.before.task_queue
             /\ OthersUntouched(step.before, {}, {})

\* C21: when the head of the queue is READY after the readiness check of
\* the assignment step and an agent is IDLE, the head is dequeued and bound
\* to the first IDLE agent in pool order, whatever agent the task declared:
\* the task is ASSIGNED with that agent, the agent ASSIGNED with that task.
\* With no IDLE agent the queue stays as it is and nothing is bound. In
\* both cases the readiness check of the step makes READY every PENDING
\* task whose dependencies are all COMPLETED; apart from that and from the
\* promotion step, no other task or agent changes.
AssignmentStep ==
    (step.outcome = "pass" /\ HeadReadyAt(step.before)) =>
        IF IdleAt(step.before) # {}
        THEN /\ BoundAt(step.before, Head(step.before.task_queue),
                        FirstIdle(step.before))
             /\ OthersUntouchedButReady(step.before,
                                        {Head(step.before.task_queue)},
                                        {FirstIdle(step.before)})
        ELSE /\ task_queue = step.before.task_queue
             /\ OthersUntouchedButReady(step.before, {}, {})

\* a pass has bound the head to the first of two IDLE agents, which is not
\* the agent the task declared, and made another PENDING task READY
AssignmentStepWitness ==
    /\ step.outcome = "pass"
    /\ HeadReadyAt(step.before)
    /\ Cardinality(IdleAt(step.before)) = 2
    /\ tasks[Head(step.before.task_queue)].state = "ASSIGNED"
    /\ tasks[Head(step.before.task_queue)].assigned_agent_id
           # step.before.tasks[Head(step.before.task_queue)].assigned_agent_id
    /\ \E t \in Tids :
           /\ step.before.tasks[t].state = "PENDING"
           /\ tasks[t].state = "READY"

\* the tasks a pass has assigned
NewlyAssigned(b) ==
    {t \in Tids : tasks[t].state = "ASSIGNED" /\ b.tasks[t].state # "ASSIGNED"}

\* the head of the queue names no task, or a task that is COMPLETED or FAILED
HeadDeadAt(b) ==
    /\ b.task_queue # << >>
    /\ \/ Head(b.task_queue) \notin Tids
       \/ b.tasks[Head(b.task_queue)].state \in {"COMPLETED", "FAILED"}

\* C22: every scheduling pass leaves the queue as it was or removes its
\* head, nothing else, and assigns at most one task to at most one agent.
\* A head that names an unknown task or a terminal one is removed, and the
\* pass stops there: the entries behind it stay queued and no task is
\* assigned in that pass, even with a READY task next and an IDLE agent.
BoundedPass ==
    step.outcome = "pass" =>
        /\ \/ task_queue = step.before.task_queue
           \/ /\ step.before.task_queue # << >>
              /\ task_queue = Tail(step.before.task_queue)
        /\ Cardinality(NewlyAssigned(step.before)) <= 1
        /\ Cardinality({a \in Aids :
                           /\ agents[a].state = "ASSIGNED"
                           /\ step.before.agents[a].state # "ASSIGNED"}) <= 1
        /\ HeadDeadAt(step.before) =>
              /\ task_queue = Tail(step.before.task_queue)
              /\ NewlyAssigned(step.before) = {}

\* a pass has dropped a COMPLETED head and stopped, with a READY task next
\* in the queue and an agent IDLE
BoundedPassWitness ==
    /\ step.outcome = "pass"
    /\ HeadDeadAt(step.before)
    /\ Head(step.before.task_queue) \in Tids
    /\ Len(step.before.task_queue) >= 2
    /\ task_queue = Tail(step.before.task_queue)
    /\ Head(task_queue) \in Tids
    /\ tasks[Head(task_queue)].state = "READY"
    /\ \E a \in Aids : agents[a].state = "IDLE"

\* the decision a completing work step ended with
LastDecision(st) == IF st.calls = 2 THEN st.second ELSE st.first

\* C23: a task goes from RUNNING to COMPLETED only in its own work step,
\* and only when the last decision of that step is a final answer with
\* content. In the same step the result of the task becomes that content,
\* its agent becomes IDLE without a current task, and readiness is
\* recomputed: afterwards no PENDING task has all its dependencies
\* COMPLETED.
CompletionStep ==
    [][\A t \in Tids :
          (/\ loaded /\ loaded'
           /\ tasks[t].state = "RUNNING" /\ tasks'[t].state = "COMPLETED") =>
              /\ pc = "work"
              /\ running_tasks # << >> /\ Head(running_tasks) = t
              /\ step'.tid = Some(t)
              /\ step'.outcome = "completed"
              /\ LastDecision(step').kind = "final"
              /\ LastDecision(step').content # None
              /\ tasks'[t].result = LastDecision(step').content
              /\ tasks[t].assigned_agent_id = Some(step'.aid)
              /\ agents[step'.aid].state = "RUNNING_TASK"
              /\ agents'[step'.aid].state = "IDLE"
              /\ agents'[step'.aid].current_task_id = None
              /\ \A u \in Tids :
                     tasks'[u].state = "PENDING" =>
                         ~DepsCompletedAt([tasks |-> tasks'], u)
      ]_vars

\* a work step has completed its task with the answer given after a tool
\* result, and a task that waited for it is READY
CompletionStepWitness ==
    /\ pc = "work"
    /\ step.outcome = "completed"
    /\ step.calls = 2
    /\ tasks[step.tid[1]].state = "COMPLETED"
    /\ tasks[step.tid[1]].result = step.second.content
    /\ agents[step.aid].state = "IDLE"
    /\ \E u \in Tids :
           /\ step.before.tasks[u].state = "PENDING"
           /\ tasks[u].state = "READY"
           /\ tasks[u].dependencies = << step.tid[1] >>

\* the transitions of the task life cycle
TaskChain ==
    {<<"PENDING", "READY">>, <<"READY", "ASSIGNED">>,
     <<"ASSIGNED", "RUNNING">>, <<"RUNNING", "COMPLETED">>}

\* one change of the state of task t, as the code makes it: a transition of
\* the chain, or the two transitions PENDING to READY to ASSIGNED of a
\* scheduling pass that recomputes readiness and then assigns the head.
\* ASSIGNED is entered only by the queue head in the assignment step,
\* RUNNING only in a scheduling pass, COMPLETED only in a work step.
ChainStep(t) ==
    /\ \/ <<tasks[t].state, tasks'[t].state>> \in TaskChain
       \/ /\ tasks[t].state = "PENDING"
          /\ tasks'[t].state = "ASSIGNED"
          /\ DepsCompletedAt([tasks |-> tasks], t)
    /\ tasks'[t].state \in {"ASSIGNED", "RUNNING"} =>
           pc = "idle" /\ pc' = "work"
    /\ tasks'[t].state = "ASSIGNED" =>
           /\ task_queue # << >>
           /\ t = Head(task_queue)
           /\ task_queue' = Tail(task_queue)
    /\ tasks'[t].state = "COMPLETED" => pc = "work"

\* C24 as stated: every change of the state of a task of the loaded crew
\* follows the chain PENDING, READY, ASSIGNED, RUNNING, COMPLETED, without
\* skipping or going back.
TaskChainAsClaimed ==
    [][(loaded /\ loaded' /\ ~LoadCrew) =>
           \A t \in Tids :
               tasks'[t].state # tasks[t].state => ChainStep(t)
      ]_vars

\* C24: outside reset, every change of a task's state follows the chain
\* PENDING, READY, ASSIGNED, RUNNING, COMPLETED without skipping or going
\* back: READY is entered only from PENDING, ASSIGNED only from READY and
\* only by the scheduler's assignment step, RUNNING only from ASSIGNED,
\* COMPLETED only from RUNNING. A reset takes every task back to PENDING
\* from whatever state it is in.
TaskChainFollowed ==
    [][/\ (loaded /\ loaded' /\ ~Reset /\ ~LoadCrew) =>
              \A t \in Tids :
                  tasks'[t].state # tasks[t].state => ChainStep(t)
       /\ (loaded /\ Reset) => \A t \in Tids : tasks'[t].state = "PENDING"
      ]_vars

\* a reset has taken back to PENDING a task that was assigned in an earlier
\* tick and promoted since, so that it was RUNNING or COMPLETED
TaskChainFollowedWitness ==
    /\ step.outcome = "reset"
    /\ \E t \in Tids :
           /\ assigned_at[t] > 0
           /\ tick_count > assigned_at[t]
           /\ tasks[t].state = "PENDING"

\* a step in which task t, RUNNING before it, is not given a final answer
\* with content keeps the task RUNNING and its agent bound to it
KeepsRunning(t) ==
    (/\ tasks[t].state = "RUNNING"
     /\ ~(pc = "work" /\ step'.tid = Some(t) /\ step'.outcome = "completed"))
        => /\ tasks'[t].state = "RUNNING"
           /\ tasks'[t].assigned_agent_id = tasks[t].assigned_agent_id
           /\ LET a == tasks[t].assigned_agent_id[1] IN
                  /\ agents'[a].state \in {"RUNNING_TASK", "USING_TOOL"}
                  /\ agents'[a].current_task_id = Some(t)

\* C25 as stated: no task is ever FAILED or WAITING_CONTEXT, and a RUNNING
\* task that gets no final answer stays RUNNING in every later state of
\* the crew, with its agent never released.
StalledStaysRunningAsClaimed ==
    /\ [](loaded =>
             \A t \in Tids :
                 tasks[t].state \notin {"FAILED", "WAITING_CONTEXT"})
    /\ [][(loaded /\ loaded' /\ ~LoadCrew) => \A t \in Tids : KeepsRunning(t)
         ]_vars

\* C25: no reachable state has a task in FAILED or WAITING_CONTEXT. A
\* RUNNING task that gets no final answer with content stays RUNNING, and
\* its agent stays bound to it in RUNNING_TASK or USING_TOOL, through every
\* step but a reset; a reset takes the task back to PENDING and frees the
\* agent.
StalledStaysRunning ==
    /\ [](loaded =>
             \A t \in Tids :
                 tasks[t].state \notin {"FAILED", "WAITING_CONTEXT"})
    /\ [][/\ (loaded /\ loaded' /\ ~Reset /\ ~LoadCrew) =>
                 \A t \in Tids : KeepsRunning(t)
          /\ (loaded /\ Reset) =>
                 /\ \A t \in Tids : tasks'[t].state = "PENDING"
                 /\ \A a \in Aids :
                        /\ agents'[a].state = "IDLE"
                        /\ agents'[a].current_task_id = None
         ]_vars

\* a task assigned two ticks ago or more has been worked at least twice
\* without a final answer: it is RUNNING and its agent holds it
StalledStaysRunningWitness ==
    /\ pc = "work"
    /\ step.outcome = "running"
    /\ assigned_at[step.tid[1]] > 0
    /\ tick_count >= assigned_at[step.tid[1]] + 2
    /\ tasks[step.tid[1]].state = "RUNNING"
    /\ agents[step.aid].state = "RUNNING_TASK"
    /\ agents[step.aid].current_task_id = step.tid

\* the transitions of the agent life cycle
AgentEdges ==
    {<<"IDLE", "ASSIGNED">>, <<"ASSIGNED", "RUNNING_TASK">>,
     <<"RUNNING_TASK", "IDLE">>, <<"RUNNING_TASK", "USING_TOOL">>,
     <<"USING_TOOL", "RUNNING_TASK">>}

\* the changes of state of agent a in one step: those along the path of
\* its work step, or the one change of any other step
ChangesOf(a) ==
    IF pc = "work" /\ step'.outcome \in WorkOutcomes /\ step'.aid = a
    THEN {<<step'.path[i], step'.path[i + 1]>> :
              i \in 1 .. Len(step'.path) - 1}
    ELSE {<<agents[a].state, agents'[a].state>>}

\* C26 as stated: every change of an agent's state is one of the five
\* edges, and an agent holds at most one task.
AgentEdgesAsClaimed ==
    /\ [](loaded => \A a \in Aids : Cardinality(ActiveTasksOf(a)) <= 1)
    /\ [][(loaded /\ loaded' /\ ~LoadCrew) =>
              \A a \in Aids :
                  \A e \in ChangesOf(a) : e[1] # e[2] => e \in AgentEdges
         ]_vars

\* C26: outside reset, every change of an agent's state is one of the
\* edges IDLE to ASSIGNED, ASSIGNED to RUNNING_TASK, RUNNING_TASK to IDLE,
\* RUNNING_TASK to USING_TOOL, USING_TOOL to RUNNING_TASK, or the edge
\* USING_TOOL to IDLE, taken when the answer that follows a tool result is
\* final: the agent is then released straight from USING_TOOL. A reset
\* makes every agent IDLE from whatever state it is in. An agent holds at
\* most one task at a time, and none while it is IDLE.
AgentEdgesFollowed ==
    /\ [](loaded =>
             \A a \in Aids :
                 /\ Cardinality(ActiveTasksOf(a)) <= 1
                 /\ agents[a].state = "IDLE" =>
                        agents[a].current_task_id = None)
    /\ [][/\ (loaded /\ loaded' /\ ~Reset /\ ~LoadCrew) =>
                 \A a \in Aids :
                     \A e \in ChangesOf(a) :
                         e[1] # e[2] =>
                             \/ e \in AgentEdges
                             \/ /\ e = <<"USING_TOOL", "IDLE">>
                                /\ step'.outcome = "completed"
                                /\ step'.calls = 2
          /\ (loaded /\ Reset) => \A a \in Aids : agents'[a].state = "IDLE"
         ]_vars

\* an agent has completed its task with the answer that followed a tool
\* result: it went from RUNNING_TASK to USING_TOOL and from there to IDLE
AgentEdgesFollowedWitness ==
    /\ pc = "work"
    /\ step.outcome = "completed"
    /\ step.path = <<"RUNNING_TASK", "USING_TOOL", "IDLE">>
    /\ agents[step.aid].state = "IDLE"
    /\ agents[step.aid].current_task_id = None

\* the ledger entries of kind k and amount n that the work step st added
Charged(st, k, n) ==
    {i \in Len(st.before.rm.usage_log) + 1 .. Len(resource_monitor.usage_log) :
        /\ resource_monitor.usage_log[i][1] = k
        /\ resource_monitor.usage_log[i][4] = n}

\* C27: a work step consults the oracle once or twice, the second time
\* only after a dispatch, and dispatches at most one tool, for the first
\* decision only. It is one uninterrupted step: it changes no agent but
\* its own and no task but its own, except that the readiness check of a
\* completion makes PENDING tasks READY. A use_tool decision that comes
\* after the tool result is not executed: no second tool is charged, the
\* task is left as it was, RUNNING, and its agent is RUNNING_TASK.
WorkStepBounded ==
    (step.outcome \in WorkOutcomes) =>
        /\ step.calls \in {1, 2}
        /\ Cardinality(Charged(step, "tokens", call_cost)) = step.calls
        /\ Cardinality(Charged(step, "tool_calls", 1)) <= 1
        /\ Cardinality(Charged(step, "tool_calls", 1)) = 1 =>
               step.dispatch # None
        /\ step.dispatch # None => dispatches(step.first)
        /\ step.calls = 2 => step.dispatch # None
        /\ \A a \in Aids \ {step.aid} : agents[a] = step.before.agents[a]
        /\ \A u \in Tids \ {step.tid[1]} :
               \/ tasks[u] = step.before.tasks[u]
               \/ /\ step.outcome = "completed"
                  /\ step.before.tasks[u].state = "PENDING"
                  /\ tasks[u] = [step.before.tasks[u] EXCEPT !.state = "READY"]
        /\ (step.calls = 2 /\ step.second.kind = "use_tool") =>
               /\ step.outcome = "running"
               /\ tasks[step.tid[1]] = step.before.tasks[step.tid[1]]
               /\ tasks[step.tid[1]].state = "RUNNING"
               /\ agents[step.aid].state = "RUNNING_TASK"
               /\ agents[step.aid].current_task_id = step.tid

\* a work step has used a tool, was told to use a tool again and stopped
\* there: two consultations and one tool call are charged, the task is
\* RUNNING
WorkStepBoundedWitness ==
    /\ pc = "work"
    /\ step.outcome = "running"
    /\ step.calls = 2
    /\ step.second.kind = "use_tool"
    /\ Cardinality(Charged(step, "tokens", call_cost)) = 2
    /\ Cardinality(Charged(step, "tool_calls", 1)) = 1
    /\ tasks[step.tid[1]].state = "RUNNING"

\* a HIERARCHICAL crew is loaded
HierarchicalLoaded == loaded /\ process = "HIERARCHICAL"

\* nothing is queued, every task is as declared and PENDING, every agent
\* as created and IDLE
NothingScheduled ==
    /\ task_queue = << >>
    /\ tasks = FreshTasks(declaration.deps)
    /\ \A t \in Tids : tasks[t].state = "PENDING"
    /\ \A a \in Aids :
           agents[a].state = "IDLE" /\ agents[a].current_task_id = None

\* C28 as stated: under HIERARCHICAL nothing is ever scheduled and tick
\* returns true forever.
HierarchicalIdleAsClaimed ==
    HierarchicalLoaded =>
        /\ NothingScheduled
        /\ tick_ret \in {"none", "true"}

\* C28: under the HIERARCHICAL policy the queue is empty and a scheduling
\* pass changes no task, no agent and not the queue, so that no task ever
\* leaves PENDING and no work step runs. Every tick of a kernel that is
\* marked running returns true and leaves it running; a tick of a kernel
\* that is not marked running is refused: it returns false and changes
\* nothing.
HierarchicalIdle ==
    /\ [](HierarchicalLoaded => NothingScheduled)
    /\ [][HierarchicalLoaded =>
              /\ (pc = "idle" /\ pc' = "work") =>
                     /\ running
                     /\ UNCHANGED <<tasks, agents, task_queue>>
                     /\ running_tasks' = << >>
              /\ (pc = "work" /\ pc' = "idle") =>
                     /\ tick_ret' = "true"
                     /\ running'
                     /\ UNCHANGED <<tasks, agents, task_queue>>
              /\ (pc = "idle" /\ tick_ret' = "false" /\ tick_ret # "false") =>
                     ~running /\ UNCHANGED <<crew_vars, core_vars>>]_vars

\* a HIERARCHICAL crew has been ticked three times: the last tick returned
\* true, the kernel is still running and every task is PENDING
HierarchicalIdleWitness ==
    /\ HierarchicalLoaded
    /\ pc = "idle"
    /\ running
    /\ tick_count >= 3
    /\ tick_ret = "true"
    /\ NothingScheduled
    /\ declaration.deps \in WellFormed

\* C29: after release(id), an agent of that id that was IDLE is as before;
\* one that was not IDLE is IDLE without a task reference and otherwise as
\* before; every other agent is as before, so that an unknown id changes
\* nothing. No task and no usage counter, of the agents or of the monitor,
\* changes. Releasing the same agent once more changes nothing:
\* release(release(s)) = release(s).
ReleaseIdempotent ==
    step.outcome = "release" =>
        /\ \A a \in Aids :
               agents[a] =
                   IF a = step.agent_id /\ step.before.agents[a].state # "IDLE"
                   THEN [step.before.agents[a] EXCEPT
                            !.state = "IDLE", !.current_task_id = None]
                   ELSE step.before.agents[a]
        /\ DOMAIN agents = Aids
        /\ tasks = step.before.tasks
        /\ resource_monitor = step.before.rm
        /\ \A a \in Aids :
               /\ agents[a].tokens = step.before.agents[a].tokens
               /\ agents[a].tool_calls = step.before.agents[a].tool_calls
        /\ release_agent(agents, step.agent_id) = agents

\* an agent that held a RUNNING task and had been charged for an earlier
\* one has been released by hand: it is IDLE, the task still RUNNING
ReleaseIdempotentWitness ==
    /\ step.outcome = "release"
    /\ step.agent_id \in Aids
    /\ step.before.agents[step.agent_id].state = "RUNNING_TASK"
    /\ agents[step.agent_id].state = "IDLE"
    /\ agents[step.agent_id].tokens > 0
    /\ \E t \in Tids :
           /\ step.before.agents[step.agent_id].current_task_id = Some(t)
           /\ tasks[t].state = "RUNNING"

\* C30: update_task_state(id, new_state) sets the state of task id and
\* changes nothing else, so that it changes nothing at all when the task
\* is in new_state already; for an id that no task has it logs the error
\* and leaves the table as it was, without a new entry. add_result sets
\* the result of task id and nothing else, and does the same for an
\* unknown id.
UpdateOnlyTheTask ==
    /\ step.outcome = "update_state" =>
           IF step.tid[1] \in Tids
           THEN /\ tasks = [step.before EXCEPT
                               ![step.tid[1]].state = step.new_state]
                /\ step.before[step.tid[1]].state = step.new_state =>
                       tasks = step.before
                /\ step.report = "ok"
           ELSE /\ tasks = step.before
                /\ DOMAIN tasks = Tids
                /\ step.report = "not_found"
    /\ step.outcome = "add_result" =>
           IF step.tid[1] \in Tids
           THEN /\ tasks = [step.before EXCEPT
                               ![step.tid[1]].result = Some(step.result)]
                /\ step.report = "ok"
           ELSE /\ tasks = step.before
                /\ DOMAIN tasks = Tids
                /\ step.report = "not_found"

\* update_task_state was called for an id that no task has, on a table
\* with tasks in three different states: the error is logged and the
\* table is as before
UpdateOnlyTheTaskWitness ==
    /\ step.outcome = "update_state"
    /\ step.tid = Some(UnknownTid)
    /\ step.new_state = "COMPLETED"
    /\ step.report = "not_found"
    /\ tasks = step.before
    /\ Cardinality({tasks[t].state : t \in Tids}) = 3

\* C31: in every state of a loaded crew a task has a context if and only
\* if it is RUNNING or COMPLETED, so the context is built at promotion and
\* not before. The context of such a task lists, in the order of its
\* dependency list, the result of every dependency, each of them a known
\* task with a result; for a task without dependencies it is the empty
\* context, which is not the undefined one.
ContextIffStarted ==
    loaded =>
        \A t \in Tids :
            /\ tasks[t].context # None
                   <=> tasks[t].state \in {"RUNNING", "COMPLETED"}
            /\ tasks[t].state \in {"RUNNING", "COMPLETED"} =>
                   /\ \A i \in 1 .. Len(tasks[t].dependencies) :
                          /\ tasks[t].dependencies[i] \in Tids
                          /\ tasks[tasks[t].dependencies[i]].result # None
                   /\ tasks[t].context =
                          Some([i \in 1 .. Len(tasks[t].dependencies) |->
                                   <<tasks[t].dependencies[i],
                                     tasks[tasks[t].dependencies[i]].result[1]>>])
                   /\ tasks[t].dependencies = << >> =>
                          tasks[t].context = Some(<< >>) /\ Some(<< >>) # None

\* a task is RUNNING with the result of its dependency as context, the
\* dependency is COMPLETED with the empty context, and a third task is
\* ASSIGNED and has no context yet
ContextIffStartedWitness ==
    /\ loaded
    /\ \E t, d, u \in Tids :
        /\ tasks[t].state = "RUNNING"
        /\ tasks[t].dependencies = << d >>
        /\ tasks[t].context = Some(<< <<d, tasks[d].result[1]>> >>)
        /\ tasks[d].state = "COMPLETED"
        /\ tasks[d].context = Some(<< >>)
        /\ tasks[u].state = "ASSIGNED"
        /\ tasks[u].context = None

\* C32: between two ticks of a loaded crew the bindings agree. The agent
\* of an ASSIGNED task exists, is ASSIGNED and has the task as its current
\* task; the agent of a RUNNING task is RUNNING_TASK and has the task as
\* its current task; the current task of an agent that is not IDLE is
\* ASSIGNED or RUNNING and bound to that agent.
BindingsAgree ==
    (loaded /\ pc = "idle") =>
        /\ \A t \in Tids :
               /\ tasks[t].state = "ASSIGNED" =>
                      \E a \in Aids : BoundTo(t, a, "ASSIGNED", "ASSIGNED")
               /\ tasks[t].state = "RUNNING" =>
                      \E a \in Aids : BoundTo(t, a, "RUNNING", "RUNNING_TASK")
        /\ \A a \in Aids :
               agents[a].state # "IDLE" =>
                   \E t \in Tids :
                       /\ agents[a].current_task_id = Some(t)
                       /\ tasks[t].state \in {"ASSIGNED", "RUNNING"}
                       /\ tasks[t].assigned_agent_id = Some(a)

\* C33: between two ticks no agent is in USING_TOOL, and no tick passes
\* over a RUNNING task because its agent is not RUNNING_TASK.
NoAgentLeftUsingTool ==
    loaded =>
        /\ pc = "idle" => \A a \in Aids : agents[a].state # "USING_TOOL"
        /\ step.outcome = "skipped" => tasks[step.tid[1]].state # "RUNNING"

\* C34: under SEQUENTIAL, in every state reached from a load by ticks
\* alone, the queue is a suffix of the declared task order and holds every
\* task that is PENDING or READY: what is not assigned yet is still
\* queued.
QueueIsSuffix ==
    (loaded /\ process = "SEQUENTIAL" /\ ~history.reset) =>
        /\ \E k \in 0 .. Len(task_order) :
               task_queue = SubSeq(task_order, k + 1, Len(task_order))
        /\ \A t \in Tids :
               tasks[t].state \in {"PENDING", "READY"} =>
                   \E i \in DOMAIN task_queue : task_queue[i] = t

\* after three ticks the queue is down to the last task, which is READY
\* and waits at the head because no agent is IDLE
QueueIsSuffixWitness ==
    /\ loaded /\ process = "SEQUENTIAL" /\ ~history.reset
    /\ pc = "idle"
    /\ tick_count >= 3
    /\ task_queue = << NumTasks - 1 >>
    /\ tasks[NumTasks - 1].state = "READY"
    /\ \A a \in Aids : agents[a].state # "IDLE"

\* the sum, over the agents of S, of their own counter of one kind
RECURSIVE agents_sum(_, _, _)
agents_sum(ags, S, kind) ==
    IF S = {} THEN 0
    ELSE LET a == CHOOSE x \in S : TRUE
         IN  ags[a][kind] + agents_sum(ags, S \ {a}, kind)

\* C35: a reset changes the task and agent records only. It makes every
\* task PENDING and every agent IDLE with both counters at zero, and
\* leaves the queue, the ledger with its totals, the tick count and the
\* running mark as they are: right after a reset the totals differ from
\* the sum of the agents' counters by all that was charged before it.
\* From then on a task that is PENDING or READY and not in the queue stays
\* PENDING or READY in every step: no later tick assigns it.
ResetLeavesQueueAndLedger ==
    /\ [][(loaded /\ Reset) =>
              /\ UNCHANGED <<task_queue, resource_monitor, tick_count, running>>
              /\ \A t \in Tids : tasks'[t].state = "PENDING"
              /\ \A a \in Aids : agents'[a] = Agent
              /\ resource_monitor'.total_tokens_used
                     - agents_sum(agents', Aids, "tokens")
                 = resource_monitor.total_tokens_used
              /\ resource_monitor'.total_tool_calls
                     - agents_sum(agents', Aids, "tool_calls")
                 = resource_monitor.total_tool_calls
         ]_vars
    /\ [][(loaded /\ loaded' /\ history.reset /\ ~LoadCrew) =>
              \A t \in Tids :
                  (/\ tasks[t].state \in {"PENDING", "READY"}
                   /\ \A i \in DOMAIN task_queue : task_queue[i] # t)
                      => /\ tasks'[t].state \in {"PENDING", "READY"}
                         /\ \A i \in DOMAIN task_queue' : task_queue'[i] # t
         ]_vars

\* a crew was reset after a task had been dequeued and charged, and a tick
\* ran to its end since: the task is READY and in no queue, the agents'
\* counters are zero and the totals are not
ResetLeavesQueueAndLedgerWitness ==
    /\ loaded /\ history.reset
    /\ pc = "idle"
    /\ tick_ret = "true"
    /\ resource_monitor.total_tokens_used > 0
    /\ agents_sum(agents, Aids, "tokens") = 0
    /\ \E t \in Tids :
           /\ assigned_at[t] > 0
           /\ tasks[t].state = "READY"
           /\ \A i \in DOMAIN task_queue : task_queue[i] # t

\* C36: a pass promotes before it assigns. Through the whole of the tick
\* whose pass assigned it, a task is not RUNNING, is not in the tick's
\* snapshot of RUNNING tasks and gets no work step. A task becomes RUNNING
\* only from ASSIGNED, in the pass of a tick later than the one that
\* assigned it, and every work step on it is in such a later tick.
PromotionPrecedesAssignment ==
    /\ [](loaded =>
              \A t \in Tids :
                  (tick_count > 0 /\ assigned_at[t] = tick_count) =>
                      /\ tasks[t].state # "RUNNING"
                      /\ \A i \in DOMAIN running_tasks : running_tasks[i] # t
                      /\ step.tid = Some(t) => step.outcome \notin WorkOutcomes)
    /\ [][(loaded /\ loaded') =>
              \A t \in Tids :
                  /\ (tasks[t].state # "RUNNING" /\ tasks'[t].state = "RUNNING")
                         => /\ tasks[t].state = "ASSIGNED"
                            /\ assigned_at[t] > 0
                            /\ tick_count' = tick_count + 1
                            /\ tick_count' >= assigned_at[t] + 1
                  /\ (step' # step /\ step'.tid = Some(t)
                          /\ step'.outcome \in WorkOutcomes)
                         => /\ assigned_at[t] > 0
                            /\ tick_count >= assigned_at[t] + 1
         ]_vars

\* a task assigned in one tick gets its first work step in the next one,
\* while the task assigned in that next tick waits
PromotionPrecedesAssignmentWitness ==
    /\ loaded /\ ~history.reset
    /\ pc = "work"
    /\ \E t, u \in Tids :
           /\ assigned_at[t] > 0
           /\ tick_count = assigned_at[t] + 1
           /\ step.tid = Some(t)
           /\ step.outcome \in WorkOutcomes
           /\ assigned_at[u] = tick_count
           /\ tasks[u].state = "ASSIGNED"

\* C37: as long as the crew has not been reset since it was loaded, the
\* total of tokens of the ledger is the sum of the agents' token counters
\* and its total of tool calls is the sum of their tool-call counters.
TotalsMatchAgents ==
    (loaded /\ ~history.reset) =>
        /\ resource_monitor.total_tokens_used
               = agents_sum(agents, Aids, "tokens")
        /\ resource_monitor.total_tool_calls
               = agents_sum(agents, Aids, "tool_calls")

\* both agents have consulted the oracle and one of them has used a tool
TotalsMatchAgentsWitness ==
    /\ loaded /\ ~history.reset
    /\ pc = "idle"
    /\ \A a \in Aids : agents[a].tokens >= call_cost
    /\ \E a \in Aids : agents[a].tool_calls > 0
    /\ resource_monitor.total_tool_calls > 0
    /\ resource_monitor.total_tokens_used > NumAgents * call_cost

ConsultationsCharged ==
    /\ [](loaded =>
              LET log == resource_monitor.usage_log
                  consultations ==
                      {i \in DOMAIN log :
                          log[i][1] = "tokens" /\ log[i][4] = call_cost}
                  tool_tokens ==
                      SelectSeq(log, LAMBDA e :
                                         e[1] = "tokens" /\ e[4] # call_cost)
              IN
              /\ resource_monitor.total_tokens_used
                     = call_cost * Cardinality(consultations)
                       + ledger_sum(tool_tokens, "tokens")
              /\ \A i \in DOMAIN log :
                     /\ (log[i][1] = "tool_calls") =>
                            /\ i + 1 \in DOMAIN log
                            /\ log[i + 1][1] = "tokens"
                            /\ log[i + 1][4] \in {web_search_cost,
                                                  calculator_cost, default_cost}
                     /\ (log[i][1] = "tokens" /\ log[i][4] # call_cost) =>
                            /\ i - 1 \in DOMAIN log
                            /\ log[i - 1][1] = "tool_calls"
                            /\ log[i - 1][2] = log[i][2]
                            /\ log[i - 1][3] = log[i][3])
    /\ []((step.outcome \in WorkOutcomes) =>
              LET b == step.before
                  log == resource_monitor.usage_log
                  cost == IF step.dispatch # None /\ step.dispatch[1].invoked
                          THEN tool_cost(step.dispatch[1].tool_name) ELSE 0
                  added == Charged(step, "tokens", call_cost)
              IN  /\ Cardinality(added) = step.calls
                  /\ \A i \in added :
                         /\ log[i][2] = step.aid
                         /\ log[i][3] = step.tid[1]
                  /\ resource_monitor.total_tokens_used
                         = b.rm.total_tokens_used + call_cost * step.calls + cost
                  /\ agents[step.aid].tokens
                         = b.agents[step.aid].tokens
                           + call_cost * step.calls + cost)
    /\ [][(loaded /\ loaded' /\ ~LoadCrew) =>
              /\ resource_monitor'.total_tokens_used
                     >= resource_monitor.total_tokens_used
              /\ (pc = "work" /\ step' # step /\ EndedInvalid(step')) =>
                     resource_monitor'.total_tokens_used
                         >= resource_monitor.total_tokens_used + call_cost
              /\ (pc = "idle" /\ pc' = "work") =>
                     \A t \in Tids :
                         (/\ tasks'[t].state = "RUNNING"
                          /\ \E a \in Aids :
                                 /\ tasks'[t].assigned_agent_id = Some(a)
                                 /\ agents'[a].state = "RUNNING_TASK")
                             => t \in Range(running_tasks')
         ]_vars

\* a task was retried tick after tick: its last work step used a tool that
\* was charged and ended on an invalid decision, after other consultations
ConsultationsChargedWitness ==
    /\ loaded
    /\ step.outcome = "running"
    /\ EndedInvalid(step)
    /\ step.calls = 2
    /\ step.dispatch # None /\ step.dispatch[1].invoked
    /\ step.before.rm.total_tokens_used >= 2 * call_cost
    /\ step.before.tasks[step.tid[1]].state = "RUNNING"
    /\ \A i \in DOMAIN resource_monitor.usage_log :
           resource_monitor.usage_log[i][3] = step.tid[1]
    /\ resource_monitor.total_tokens_used
           = 4 * call_cost + tool_cost(step.dispatch[1].tool_name)

====
